---- MODULE Spec2Model ----
(***************************************************************************)
(* Model of the connection registry of sqlite-gui                          *)
(* (internal/app/connections.go, type ConnectionManager) together with the *)
(* Connect/Close lifecycle of the adapters it owns                         *)
(* (pkg/database/sqlite/sqlite.go, pkg/database/database.go).              *)
(*                                                                         *)
(* Strings are sequences of byte codes, so that Go's string comparison     *)
(* (bytewise lexicographic) and strings.HasPrefix are computed, not        *)
(* assumed.  Every registry method is split at its lock operations: the    *)
(* call, the acquisition of mu, each statement group of the body, and the  *)
(* return (where the deferred unlock runs).                                *)
(***************************************************************************)
EXTENDS Integers, Sequences, FiniteSets, TLC

\* ------------------------------------------------------------------ bounds

\* Number of goroutines calling the registry in parallel.
NumProcs == 2

\* Cap on the number of connections the drivers open in one behaviour: once it
\* is reached, every further Connect fails.
MaxAdapters == 2

Procs == 1..NumProcs

\* Number of requests that share one adapter handle.
NumReqs == 2

\* Cap on the number of rows the table holds: Insert is not called on a table
\* that is full.
MaxRows == 2

\* Cap on the number of rows of a table that was filled before the adapter
\* connected to it.
MaxStored == 5

\* ------------------------------------------------------------------ strings

\* "" , "a" , "b" : the connection names callers pass.
EmptyName == <<>>
Names == {<<>>, <<97>>, <<98>>}

\* ":memory:" and "postgresql://h"
ConnStrings ==
  { <<58, 109, 101, 109, 111, 114, 121, 58>>,
    <<112, 111, 115, 116, 103, 114, 101, 115, 113, 108, 58, 47, 47, 104>> }

\* "postgresql://"
PgPrefix == <<112, 111, 115, 116, 103, 114, 101, 115, 113, 108, 58, 47, 47>>

\* strings.HasPrefix
HasPrefix(s, prefix) ==
  /\ Len(s) >= Len(prefix)
  /\ SubSeq(s, 1, Len(prefix)) = prefix

\* Go's s < t on strings: bytewise lexicographic, a proper prefix is smaller.
RECURSIVE StrLess(_, _)
StrLess(s, t) ==
  IF t = <<>> THEN FALSE
  ELSE IF s = <<>> THEN TRUE
  ELSE IF Head(s) # Head(t) THEN Head(s) < Head(t)
  ELSE StrLess(Tail(s), Tail(t))

\* ------------------------------------------------------------------ errors

NoErr == [kind |-> "nil"]

\* fmt.Errorf("%w: %s", ErrConnectionExists, name)
ErrConnectionExists(n) == [kind |-> "ErrConnectionExists", name |-> n]

\* fmt.Errorf("%w: %s", ErrConnectionMiss, name)
ErrConnectionMiss(n) == [kind |-> "ErrConnectionMiss", name |-> n]

\* the driver's error from sql.Open / PingContext / the PRAGMA, for adapter h
ConnectErr(h) == [kind |-> "connect", db |-> h]

\* the driver's error from (*sql.DB).Close, for adapter h
DriverCloseErr(h) == [kind |-> "close", db |-> h]

\* fmt.Errorf("close %s: %w", name, err)
WrapCloseErr(n, e) == [kind |-> "closeAll", name |-> n, err |-> e]

\* ------------------------------------------------------------------ state

VARIABLES
  connections,  \* m.connections : name -> connectionEntry
  defaultName,  \* m.defaultName
  muWriter,     \* m.mu : the goroutine that holds or has requested the write lock
  muReaders,    \* m.mu : the goroutines holding a read lock
  muBlocked,    \* m.mu : the goroutines blocked in RLock behind a writer
  adapters,     \* the adapter objects the registry has stored: handle -> [kind, db]
  stored,       \* history: name -> what Add stored under it since the last reset
  pc,           \* per goroutine: position in the method it runs
  name,         \* per goroutine: the name argument (Get: after resolution)
  arg,          \* per goroutine: the name argument as passed
  connString,   \* per goroutine: the connString argument
  db,           \* per goroutine: Add's local db / the handle Get returns, 0 if nil
  made,         \* per goroutine: the adapter object Add's factory call created
  pre,          \* per goroutine: history, the registry when mu was acquired
  todo,         \* per goroutine: CloseAll's range loop, names not yet visited
  closeLog,     \* per goroutine: history, CloseAll's Close calls in order
  firstErr,     \* per goroutine: CloseAll's firstErr
  ret,          \* per goroutine: the value about to be returned
  recv,         \* the adapter a caller uses directly: the receiver [kind, db]
  pool,         \* database/sql: the number of open *sql.DB the receiver opened
  tbl,          \* the engine: the rows of the table, in storage order
  schema,       \* the engine: the columns of each table DDL has created
  last,         \* history: the last method called on the receiver
  run           \* per request that shares the receiver: the method it runs

vars == <<connections, defaultName, muWriter, muReaders, muBlocked, adapters, stored,
          pc, name, arg, connString, db, made, pre, todo, closeLog, firstErr, ret,
          recv, pool, tbl, schema, last, run>>

\* the state of one adapter and of the database behind it
adapterVars == <<recv, pool, tbl, schema, last, run>>

\* the state of the registry and of the goroutines that call it
registryVars == <<connections, defaultName, muWriter, muReaders, muBlocked, adapters,
                  stored, pc, name, arg, connString, db, made, pre, todo, closeLog,
                  firstErr, ret>>

registry == <<connections, defaultName>>
mu == <<muWriter, muReaders, muBlocked>>
locals == <<name, arg, connString, db, made, pre, todo, closeLog, firstErr, ret>>

\* connectionEntry{name, connString, db}
Entry(n, cs, h) == [name |-> n, connString |-> cs, db |-> h]

EmptyMap == [n \in {} |-> Entry(EmptyName, <<>>, 0)]

\* no adapter object
NoAdapter == [kind |-> "none", db |-> FALSE]

Snapshot == [connections |-> connections, defaultName |-> defaultName]

\* the results of a method: its error, and the handle (Get), the name (Default)
\* or the items (List) it returns
NoRet == [err |-> NoErr, db |-> 0, name |-> <<>>, items |-> <<>>]

\* a map without entries: database.Row{} / database.Key{}
EmptyRow == [c \in {} |-> ""]

\* a request that runs no method of the receiver
NoRequest ==
  [pc |-> "idle", op |-> "none", data |-> EmptyRow, seen |-> <<>>, holds |-> FALSE,
   out |-> [err |-> NoErr, rows |-> <<>>]]

\* no method was called on the receiver yet
NoCall ==
  [op |-> "none", key |-> EmptyRow, data |-> EmptyRow, limit |-> 0, offset |-> 0,
   connected |-> FALSE, driver |-> FALSE, before |-> <<>>, schema |-> <<>>, stmts |-> <<>>,
   err |-> NoErr, rows |-> <<>>]

\* NewConnectionManager and no call in progress
RegistryInit ==
  /\ connections = EmptyMap
  /\ defaultName = EmptyName
  /\ muWriter = 0
  /\ muReaders = {}
  /\ muBlocked = {}
  /\ adapters = <<>>
  /\ stored = [n \in Names |-> {}]
  /\ pc = [p \in Procs |-> "idle"]
  /\ name = [p \in Procs |-> EmptyName]
  /\ arg = [p \in Procs |-> EmptyName]
  /\ connString = [p \in Procs |-> <<>>]
  /\ db = [p \in Procs |-> 0]
  /\ made = [p \in Procs |-> NoAdapter]
  /\ pre = [p \in Procs |-> [connections |-> EmptyMap, defaultName |-> EmptyName]]
  /\ todo = [p \in Procs |-> {}]
  /\ closeLog = [p \in Procs |-> <<>>]
  /\ firstErr = [p \in Procs |-> NoErr]
  /\ ret = [p \in Procs |-> NoRet]

\* the registry in use; no adapter is used directly
Init ==
  /\ RegistryInit
  /\ recv = NoAdapter
  /\ pool = 0
  /\ tbl = <<>>
  /\ schema = <<>>
  /\ last = NoCall
  /\ run = [r \in 1..NumReqs |-> NoRequest]

\* locals of a goroutine that runs no registry method
Reset(p) ==
  /\ name' = [name EXCEPT ![p] = EmptyName]
  /\ arg' = [arg EXCEPT ![p] = EmptyName]
  /\ connString' = [connString EXCEPT ![p] = <<>>]
  /\ db' = [db EXCEPT ![p] = 0]
  /\ made' = [made EXCEPT ![p] = NoAdapter]
  /\ pre' = [pre EXCEPT ![p] = [connections |-> EmptyMap, defaultName |-> EmptyName]]
  /\ todo' = [todo EXCEPT ![p] = {}]
  /\ closeLog' = [closeLog EXCEPT ![p] = <<>>]
  /\ firstErr' = [firstErr EXCEPT ![p] = NoErr]
  /\ ret' = [ret EXCEPT ![p] = NoRet]

\* ------------------------------------------------------------------ m.mu

\* sync.RWMutex as Go documents it.  Lock first takes the mutex among writers
\* and thereby announces the writer: from then on RLock blocks.  Lock then
\* waits until the readers that hold the lock have left.  Unlock hands the lock
\* to all readers blocked meanwhile, before the next writer can announce.

\* mutation of ReadersGone: the writer does not wait for the readers
ReadersIgnored == TRUE

\* the readers that held the lock when the writer announced itself have left
ReadersGone == muReaders = {}

\* m.mu.Lock() by p, which continues at position next
Lock(p, next) ==
  \/ /\ muWriter = 0
     /\ muWriter' = p
     /\ UNCHANGED <<muReaders, muBlocked, pc, pre>>
  \/ /\ muWriter = p
     /\ ReadersGone
     /\ pre' = [pre EXCEPT ![p] = Snapshot]
     /\ pc' = [pc EXCEPT ![p] = next]
     /\ UNCHANGED mu

\* m.mu.Unlock()
Unlock(p) ==
  /\ muWriter' = 0
  /\ muReaders' = muBlocked
  /\ muBlocked' = {}

\* m.mu.RLock() by p, which continues at position next
RLock(p, next) ==
  \/ /\ p \notin muBlocked \cup muReaders
     /\ muWriter = 0
     /\ muReaders' = muReaders \cup {p}
     /\ pre' = [pre EXCEPT ![p] = Snapshot]
     /\ pc' = [pc EXCEPT ![p] = next]
     /\ UNCHANGED <<muWriter, muBlocked>>
  \/ /\ p \notin muBlocked \cup muReaders
     /\ muWriter # 0
     /\ muBlocked' = muBlocked \cup {p}
     /\ UNCHANGED <<muWriter, muReaders, pc, pre>>
  \/ /\ p \in muReaders
     /\ pre' = [pre EXCEPT ![p] = Snapshot]
     /\ pc' = [pc EXCEPT ![p] = next]
     /\ UNCHANGED mu

\* m.mu.RUnlock()
RUnlock(p) ==
  /\ muReaders' = muReaders \ {p}
  /\ UNCHANGED <<muWriter, muBlocked>>

\* ------------------------------------------------------------------ adapters

\* factory(connString): the adapter implementation chosen by the scheme
Factory(cs) == IF HasPrefix(cs, PgPrefix) THEN "postgres" ELSE "sqlite"

\* sqlite.New() / postgresql.New(): db is nil
NewAdapter(kind) == [kind |-> kind, db |-> FALSE]

\* (*SQLite).Connect / (*Postgres).Connect: s.db is set only when sql.Open, the
\* ping (and for SQLite the PRAGMA) all succeeded; ok is the driver's outcome.
Connect(a, ok) == IF ok THEN [a EXCEPT !.db = TRUE] ELSE a

\* mutation of ConnectResult: a failed Connect reports success
ConnectResultSwallowed(h, ok) == NoErr

\* the error Connect returns
ConnectResult(h, ok) == IF ok THEN NoErr ELSE ConnectErr(h)

\* mutation of Close: the handle stays in the receiver
CloseKeepsHandle(a) == a

\* (*SQLite).Close / (*Postgres).Close: nil db returns nil; otherwise the
\* driver's Close result is returned and db is cleared either way.
Close(a) == [a EXCEPT !.db = FALSE]

CloseResult(a, h, ok) ==
  IF ~a.db THEN NoErr ELSE IF ok THEN NoErr ELSE DriverCloseErr(h)

\* what the driver may answer to a Connect: success or an error, and only an
\* error once MaxAdapters connections were opened
ConnectOutcomes == IF Len(adapters) < MaxAdapters THEN BOOLEAN ELSE {FALSE}

\* ------------------------------------------------------------------ helpers

\* m[k] = v on a Go map
Put(m, k, v) == [x \in (DOMAIN m) \cup {k} |-> IF x = k THEN v ELSE m[x]]

\* mutation of Exists: the duplicate check is missing
ExistsNever(m, n) == FALSE

\* Add: _, exists := m.connections[name]
Exists(m, n) == n \in DOMAIN m

\* Add: if m.defaultName == "" { m.defaultName = name }
NextDefault(def, n) == IF def = EmptyName THEN n ELSE def

\* mutation of Resolve: the empty name is looked up as it is
ResolveNothing(n, def) == n

\* Get: if name == "" { name = m.defaultName }
Resolve(n, def) == IF n = EmptyName THEN def ELSE n

\* ------------------------------------------------------------------ Add

\* A caller's arguments are read by nobody while its goroutine waits for the
\* lock, so the model draws them at the first step that reads them.
CallAdd(p) ==
  /\ UNCHANGED adapterVars
  /\ pc[p] = "idle"
  /\ pc' = [pc EXCEPT ![p] = "addLock"]
  /\ UNCHANGED <<registry, mu, adapters, stored, locals>>

\* m.mu.Lock()
AddLock(p) ==
  /\ UNCHANGED adapterVars
  /\ pc[p] = "addLock"
  /\ Lock(p, "addCheck")
  /\ UNCHANGED <<registry, adapters, stored, name, arg, connString, db, made, todo,
                 closeLog, firstErr, ret>>

\* if _, exists := m.connections[name]; exists { return ErrConnectionExists }
AddCheck(p) ==
  /\ UNCHANGED adapterVars
  /\ pc[p] = "addCheck"
  /\ \E n \in Names, cs \in ConnStrings :
       /\ arg' = [arg EXCEPT ![p] = n]
       /\ name' = [name EXCEPT ![p] = n]
       /\ connString' = [connString EXCEPT ![p] = cs]
       /\ IF Exists(connections, n)
            THEN /\ ret' = [ret EXCEPT ![p].err = ErrConnectionExists(n)]
                 /\ pc' = [pc EXCEPT ![p] = "addRet"]
            ELSE /\ ret' = ret
                 /\ pc' = [pc EXCEPT ![p] = "addConnect"]
  /\ UNCHANGED <<registry, mu, adapters, stored, db, made, pre, todo, closeLog, firstErr>>

\* mutation of AddConnect: a failed Connect is tried again
AddConnectRetry(p) ==
  /\ UNCHANGED adapterVars
  /\ pc[p] = "addConnect"
  /\ \E ok \in ConnectOutcomes :
       LET h == Len(adapters) + 1 IN
       /\ made' = [made EXCEPT ![p] = Connect(NewAdapter(Factory(connString[p])), ok)]
       /\ db' = [db EXCEPT ![p] = h]
       /\ pc' = [pc EXCEPT ![p] = IF ConnectResult(h, ok) = NoErr
                                    THEN "addStore" ELSE "addConnect"]
  /\ UNCHANGED <<registry, mu, adapters, stored, name, arg, connString, pre, todo,
                 closeLog, firstErr, ret>>

\* db := factory(connString); if err := db.Connect(ctx, connString); err != nil { return err }
AddConnect(p) ==
  /\ UNCHANGED adapterVars
  /\ pc[p] = "addConnect"
  /\ \E ok \in ConnectOutcomes :
       LET h == Len(adapters) + 1 IN
       /\ made' = [made EXCEPT ![p] = Connect(NewAdapter(Factory(connString[p])), ok)]
       /\ db' = [db EXCEPT ![p] = h]
       /\ IF ConnectResult(h, ok) = NoErr
            THEN /\ ret' = ret
                 /\ pc' = [pc EXCEPT ![p] = "addStore"]
            ELSE /\ ret' = [ret EXCEPT ![p].err = ConnectResult(h, ok)]
                 /\ pc' = [pc EXCEPT ![p] = "addRet"]
  /\ UNCHANGED <<registry, mu, adapters, stored, name, arg, connString, pre, todo,
                 closeLog, firstErr>>

\* mutation of AddStore: the entry is stored in a map made anew
AddStoreAlone(p) ==
  /\ UNCHANGED adapterVars
  /\ pc[p] = "addStore"
  /\ connections' = Put(EmptyMap, name[p], Entry(name[p], connString[p], db[p]))
  /\ stored' = [stored EXCEPT ![name[p]] =
                  @ \cup {[db |-> db[p], connString |-> connString[p]]}]
  /\ adapters' = [h \in (DOMAIN adapters) \cup {db[p]} |->
                    IF h = db[p] THEN made[p] ELSE adapters[h]]
  /\ pc' = [pc EXCEPT ![p] = "addDefault"]
  /\ UNCHANGED <<defaultName, mu, locals>>

\* m.connections[name] = &connectionEntry{name, connString, db}
AddStore(p) ==
  /\ UNCHANGED adapterVars
  /\ pc[p] = "addStore"
  /\ connections' = Put(connections, name[p], Entry(name[p], connString[p], db[p]))
  /\ stored' = [stored EXCEPT ![name[p]] =
                  @ \cup {[db |-> db[p], connString |-> connString[p]]}]
  /\ adapters' = [h \in (DOMAIN adapters) \cup {db[p]} |->
                    IF h = db[p] THEN made[p] ELSE adapters[h]]
  /\ pc' = [pc EXCEPT ![p] = "addDefault"]
  /\ UNCHANGED <<defaultName, mu, locals>>

\* if m.defaultName == "" { m.defaultName = name }; return nil
AddSetDefault(p) ==
  /\ UNCHANGED adapterVars
  /\ pc[p] = "addDefault"
  /\ defaultName' = NextDefault(defaultName, name[p])
  /\ ret' = [ret EXCEPT ![p].err = NoErr]
  /\ pc' = [pc EXCEPT ![p] = "addRet"]
  /\ UNCHANGED <<connections, mu, adapters, stored, name, arg, connString, db, made,
                 pre, todo, closeLog, firstErr>>

\* mutation of AddRet: the error returns leave without unlocking
AddRetLeakOnError(p) ==
  /\ UNCHANGED adapterVars
  /\ pc[p] = "addRet"
  /\ IF ret[p].err = NoErr THEN Unlock(p) ELSE UNCHANGED mu
  /\ pc' = [pc EXCEPT ![p] = "idle"]
  /\ Reset(p)
  /\ UNCHANGED <<registry, adapters, stored>>

\* the return: defer m.mu.Unlock()
AddRet(p) ==
  /\ UNCHANGED adapterVars
  /\ pc[p] = "addRet"
  /\ Unlock(p)
  /\ pc' = [pc EXCEPT ![p] = "idle"]
  /\ Reset(p)
  /\ UNCHANGED <<registry, adapters, stored>>

\* ------------------------------------------------------------------ Get

CallGet(p) ==
  /\ UNCHANGED adapterVars
  /\ pc[p] = "idle"
  /\ pc' = [pc EXCEPT ![p] = "getRLock"]
  /\ UNCHANGED <<registry, mu, adapters, stored, locals>>

\* m.mu.RLock()
GetRLock(p) ==
  /\ UNCHANGED adapterVars
  /\ pc[p] = "getRLock"
  /\ RLock(p, "getBody")
  /\ UNCHANGED <<registry, adapters, stored, name, arg, connString, db, made, todo,
                 closeLog, firstErr, ret>>

\* resolve the empty name, look the entry up, return entry.db or ErrConnectionMiss
GetBody(p) ==
  /\ UNCHANGED adapterVars
  /\ pc[p] = "getBody"
  /\ \E a \in Names :
       LET n == Resolve(a, defaultName) IN
       /\ arg' = [arg EXCEPT ![p] = a]
       /\ name' = [name EXCEPT ![p] = n]
       /\ IF n \in DOMAIN connections
            THEN /\ db' = [db EXCEPT ![p] = connections[n].db]
                 /\ ret' = [ret EXCEPT ![p].db = connections[n].db]
            ELSE /\ db' = [db EXCEPT ![p] = 0]
                 /\ ret' = [ret EXCEPT ![p].err = ErrConnectionMiss(n)]
  /\ pc' = [pc EXCEPT ![p] = "getRet"]
  /\ UNCHANGED <<registry, mu, adapters, stored, connString, made, pre, todo,
                 closeLog, firstErr>>

\* the return: defer m.mu.RUnlock()
GetRet(p) ==
  /\ UNCHANGED adapterVars
  /\ pc[p] = "getRet"
  /\ RUnlock(p)
  /\ pc' = [pc EXCEPT ![p] = "idle"]
  /\ Reset(p)
  /\ UNCHANGED <<registry, adapters, stored>>

\* ------------------------------------------------------------------ Default

CallDefault(p) ==
  /\ UNCHANGED adapterVars
  /\ pc[p] = "idle"
  /\ pc' = [pc EXCEPT ![p] = "defRLock"]
  /\ UNCHANGED <<registry, mu, adapters, stored, locals>>

\* m.mu.RLock()
DefaultRLock(p) ==
  /\ UNCHANGED adapterVars
  /\ pc[p] = "defRLock"
  /\ RLock(p, "defBody")
  /\ UNCHANGED <<registry, adapters, stored, name, arg, connString, db, made, todo,
                 closeLog, firstErr, ret>>

\* return m.defaultName
DefaultBody(p) ==
  /\ UNCHANGED adapterVars
  /\ pc[p] = "defBody"
  /\ ret' = [ret EXCEPT ![p].name = defaultName]
  /\ pc' = [pc EXCEPT ![p] = "defRet"]
  /\ UNCHANGED <<registry, mu, adapters, stored, name, arg, connString, db, made, pre,
                 todo, closeLog, firstErr>>

\* the return: defer m.mu.RUnlock()
DefaultRet(p) ==
  /\ UNCHANGED adapterVars
  /\ pc[p] = "defRet"
  /\ RUnlock(p)
  /\ pc' = [pc EXCEPT ![p] = "idle"]
  /\ Reset(p)
  /\ UNCHANGED <<registry, adapters, stored>>

\* ------------------------------------------------------------------ List

\* ConnectionInfo{Name, ConnString, Default}
ConnectionInfo(n, cs, d) == [Name |-> n, ConnString |-> cs, Default |-> d]

\* the orders in which a range loop may visit the keys S of a Go map
Orders(S) ==
  {o \in [1..Cardinality(S) -> S] : \A i, j \in DOMAIN o : i # j => o[i] # o[j]}

\* the loop of List: one ConnectionInfo appended per map entry, in visiting order
Collect(m, def, order) ==
  [i \in DOMAIN order |->
     ConnectionInfo(order[i], m[order[i]].connString, order[i] = def)]

\* the less function handed to sort.Slice
InfoLess(x, y) == StrLess(x.Name, y.Name)

\* x placed before the first element of the sorted r that is not less than x
RECURSIVE Insert(_, _)
Insert(x, r) ==
  IF r = <<>> THEN <<x>>
  ELSE IF InfoLess(Head(r), x) THEN <<Head(r)>> \o Insert(x, Tail(r))
  ELSE <<x>> \o r

\* mutation of SortSlice: the results stay in the order the map was visited
Unsorted(r) == r

\* sort.Slice(results, less)
RECURSIVE SortSlice(_)
SortSlice(r) == IF r = <<>> THEN <<>> ELSE Insert(Head(r), SortSlice(Tail(r)))

CallList(p) ==
  /\ UNCHANGED adapterVars
  /\ pc[p] = "idle"
  /\ pc' = [pc EXCEPT ![p] = "listRLock"]
  /\ UNCHANGED <<registry, mu, adapters, stored, locals>>

\* m.mu.RLock()
ListRLock(p) ==
  /\ UNCHANGED adapterVars
  /\ pc[p] = "listRLock"
  /\ RLock(p, "listBody")
  /\ UNCHANGED <<registry, adapters, stored, name, arg, connString, db, made, todo,
                 closeLog, firstErr, ret>>

\* the range loop over m.connections, then sort.Slice by Name
ListBody(p) ==
  /\ UNCHANGED adapterVars
  /\ pc[p] = "listBody"
  /\ \E order \in Orders(DOMAIN connections) :
       ret' = [ret EXCEPT ![p].items =
                 SortSlice(Collect(connections, defaultName, order))]
  /\ pc' = [pc EXCEPT ![p] = "listRet"]
  /\ UNCHANGED <<registry, mu, adapters, stored, name, arg, connString, db, made, pre,
                 todo, closeLog, firstErr>>

\* the return: defer m.mu.RUnlock()
ListRet(p) ==
  /\ UNCHANGED adapterVars
  /\ pc[p] = "listRet"
  /\ RUnlock(p)
  /\ pc' = [pc EXCEPT ![p] = "idle"]
  /\ Reset(p)
  /\ UNCHANGED <<registry, adapters, stored>>

\* ------------------------------------------------------------------ CloseAll

CallCloseAll(p) ==
  /\ UNCHANGED adapterVars
  /\ pc[p] = "idle"
  /\ pc' = [pc EXCEPT ![p] = "closeLock"]
  /\ UNCHANGED <<registry, mu, adapters, stored, locals>>

\* m.mu.Lock()
CloseAllLock(p) ==
  /\ UNCHANGED adapterVars
  /\ pc[p] = "closeLock"
  /\ Lock(p, "closeRange")
  /\ UNCHANGED <<registry, adapters, stored, name, arg, connString, db, made, todo,
                 closeLog, firstErr, ret>>

\* var firstErr error; the range loop over m.connections starts
CloseAllRange(p) ==
  /\ UNCHANGED adapterVars
  /\ pc[p] = "closeRange"
  /\ todo' = [todo EXCEPT ![p] = DOMAIN connections]
  /\ firstErr' = [firstErr EXCEPT ![p] = NoErr]
  /\ pc' = [pc EXCEPT ![p] = "closeLoop"]
  /\ UNCHANGED <<registry, mu, adapters, stored, name, arg, connString, db, made, pre,
                 closeLog, ret>>

\* mutation of NextFirstErr: a later close error replaces the first one
NextLastErr(first, n, err) ==
  IF err # NoErr THEN WrapCloseErr(n, err) ELSE first

\* firstErr after one iteration whose Close returned err
NextFirstErr(first, n, err) ==
  IF err # NoErr /\ first = NoErr THEN WrapCloseErr(n, err) ELSE first

\* one iteration of the range loop: entry.db.Close() on an entry not yet visited
CloseAllLoop(p) ==
  /\ UNCHANGED adapterVars
  /\ pc[p] = "closeLoop"
  /\ \E n \in todo[p], ok \in BOOLEAN :
       LET h == connections[n].db
           err == CloseResult(adapters[h], h, ok)
       IN /\ adapters' = [adapters EXCEPT ![h] = Close(@)]
          /\ firstErr' = [firstErr EXCEPT ![p] = NextFirstErr(@, n, err)]
          /\ closeLog' = [closeLog EXCEPT ![p] =
                            Append(@, [name |-> n, db |-> h, err |-> err])]
          /\ todo' = [todo EXCEPT ![p] = @ \ {n}]
  /\ UNCHANGED <<registry, mu, stored, pc, name, arg, connString, db, made, pre, ret>>

\* mutation of CloseAllReset: the map is kept when a Close failed
CloseAllResetUnlessErr(p) ==
  /\ UNCHANGED adapterVars
  /\ pc[p] = "closeLoop"
  /\ todo[p] = {}
  /\ connections' = IF firstErr[p] = NoErr THEN EmptyMap ELSE connections
  /\ stored' = [n \in Names |-> {}]
  /\ pc' = [pc EXCEPT ![p] = "closeDefault"]
  /\ UNCHANGED <<defaultName, mu, adapters, locals>>

\* the loop is over: m.connections = make(map[string]*connectionEntry)
CloseAllReset(p) ==
  /\ UNCHANGED adapterVars
  /\ pc[p] = "closeLoop"
  /\ todo[p] = {}
  /\ connections' = EmptyMap
  /\ stored' = [n \in Names |-> {}]
  /\ pc' = [pc EXCEPT ![p] = "closeDefault"]
  /\ UNCHANGED <<defaultName, mu, adapters, locals>>

\* mutation of ClearedDefault: CloseAll leaves m.defaultName as it is
KeptDefault == defaultName

\* the value CloseAll assigns to m.defaultName
ClearedDefault == EmptyName

\* m.defaultName = ""; return firstErr
CloseAllResetDefault(p) ==
  /\ UNCHANGED adapterVars
  /\ pc[p] = "closeDefault"
  /\ defaultName' = ClearedDefault
  /\ ret' = [ret EXCEPT ![p].err = firstErr[p]]
  /\ pc' = [pc EXCEPT ![p] = "closeRet"]
  /\ UNCHANGED <<connections, mu, adapters, stored, name, arg, connString, db, made,
                 pre, todo, closeLog, firstErr>>

\* the return: defer m.mu.Unlock()
CloseAllRet(p) ==
  /\ UNCHANGED adapterVars
  /\ pc[p] = "closeRet"
  /\ Unlock(p)
  /\ pc' = [pc EXCEPT ![p] = "idle"]
  /\ Reset(p)
  /\ UNCHANGED <<registry, adapters, stored>>

\* ------------------------------------------------------------------ identifiers

\* the table the callers work on: "t"
TableName == <<116>>

\* its columns in declaration order: a" and B
TableCols == << <<97, 34>>, <<66>> >>

\* the column names callers use as keys of a Row or Key
ColNames == {TableCols[i] : i \in DOMAIN TableCols}

\* the values callers pass, and SQL's NULL
Vals == {"x", "y"}
Null == "NULL"

\* database.Row / database.Key: maps from column names to values
Maps == UNION {[D -> Vals] : D \in SUBSET ColNames}

\* strings.ReplaceAll(name, `"`, `""`)
RECURSIVE Escape(_)
Escape(n) ==
  IF n = <<>> THEN <<>>
  ELSE IF Head(n) = 34 THEN <<34, 34>> \o Escape(Tail(n))
  ELSE <<Head(n)>> \o Escape(Tail(n))

\* quoteIdent without the ReplaceAll: the name between two `"` as it is
quoteIdentRaw(n) == <<34>> \o n \o <<34>>

\* quoteIdent: `"` + escaped + `"`
quoteIdent(n) == <<34>> \o Escape(n) \o <<34>>

\* s placed before the first element of the sorted r that is not less than s
RECURSIVE InsertString(_, _)
InsertString(x, r) ==
  IF r = <<>> THEN <<x>>
  ELSE IF StrLess(Head(r), x) THEN <<Head(r)>> \o InsertString(x, Tail(r))
  ELSE <<x>> \o r

\* sort.Strings
RECURSIVE SortStrings(_)
SortStrings(r) ==
  IF r = <<>> THEN <<>> ELSE InsertString(Head(r), SortStrings(Tail(r)))

\* orderedKeys(m): the keys appended in the order the range loop visits them,
\* then sorted
orderedKeys(visit) == SortStrings(visit)

\* ------------------------------------------------------------------ statements

\* A statement is kept as the parts fmt.Sprintf puts together: the verb, the
\* quoted table, and the lists that strings.Join separates by ", " or " AND ".
\* A placeholder is "?" or "$n"; a LIMIT or OFFSET term may also be absent or
\* the literal -1.
\* the i-th placeholder of a statement: "?", or fmt.Sprintf("$%d", i)
Placeholder(kind, i) ==
  IF kind = "sqlite" THEN [sym |-> "?", n |-> 0] ELSE [sym |-> "$", n |-> i]
Absent == [sym |-> "", n |-> 0]
MinusOne == [sym |-> "literal", n |-> -1]

Statement(verb, table) ==
  [verb |-> verb, table |-> quoteIdent(table), columns |-> <<>>, values |-> <<>>,
   set |-> <<>>, where |-> <<>>, limit |-> Absent, offset |-> Absent]

\* fmt.Sprintf("%s = ?", quoteIdent(col)) / fmt.Sprintf("%s = $%d", quoteIdent(col), n)
Clause(col, ph) == [col |-> quoteIdent(col), ph |-> ph]

\* what a builder hands to ExecContext / QueryContext
Call(stmt, args) == [stmt |-> stmt, args |-> args]

\* validation errors
ErrNotConnected == [kind |-> "ErrNotConnected"]

\* fmt.Errorf(text, table): the errors the methods make themselves, told apart
\* by their text
Errorf(text) == [kind |-> text]

\* ------------------------------------------------------------------ the engine

\* What the database does with a statement the adapter sends: it reads the
\* identifiers back, binds each placeholder to an argument and runs the verb.

\* the text between the delimiters uses `"` only in pairs
RECURSIVE Paired(_)
Paired(b) ==
  IF b = <<>> THEN TRUE
  ELSE IF Head(b) # 34 THEN Paired(Tail(b))
  ELSE Len(b) >= 2 /\ b[2] = 34 /\ Paired(Tail(Tail(b)))

\* every pair `""` read as one `"`
RECURSIVE Collapse(_)
Collapse(b) ==
  IF b = <<>> THEN <<>>
  ELSE IF Head(b) = 34 THEN <<34>> \o Collapse(Tail(Tail(b)))
  ELSE <<Head(b)>> \o Collapse(Tail(b))

\* a well-formed quoted identifier
IsQuoted(q) ==
  /\ Len(q) >= 2
  /\ q[1] = 34
  /\ q[Len(q)] = 34
  /\ Paired(SubSeq(q, 2, Len(q) - 1))

\* the name a quoted identifier denotes
Unquote(q) == Collapse(SubSeq(q, 2, Len(q) - 1))

\* the placeholders of a statement in the order of its text
Placeholders(stmt) ==
  LET terms == stmt.values \o [i \in DOMAIN stmt.set |-> stmt.set[i].ph]
                 \o [i \in DOMAIN stmt.where |-> stmt.where[i].ph]
                 \o <<stmt.limit, stmt.offset>>
  IN SelectSeq(terms, LAMBDA t : t.sym \in {"?", "$"})

\* the argument bound to the k-th placeholder of the text: "?" takes the k-th
\* argument, "$n" the n-th
ArgAt(stmt, k, args) ==
  LET ph == Placeholders(stmt)[k]
  IN IF ph.sym = "?" THEN args[k] ELSE args[ph.n]

\* the statement parses in the dialect and its parameters match the arguments
Accepts(kind, stmt, args) ==
  LET phs == Placeholders(stmt)
      used == {phs[k].n : k \in DOMAIN phs}
      identifiers == {stmt.columns[i] : i \in DOMAIN stmt.columns}
                       \cup {stmt.set[i].col : i \in DOMAIN stmt.set}
                       \cup {stmt.where[i].col : i \in DOMAIN stmt.where}
  IN /\ IsQuoted(stmt.table) /\ Unquote(stmt.table) = TableName
     /\ \A q \in identifiers : IsQuoted(q) /\ Unquote(q) \in ColNames
     /\ stmt.verb \in {"UPDATE", "DELETE"} => stmt.where # <<>>
     /\ stmt.verb = "UPDATE" => stmt.set # <<>>
     /\ stmt.verb = "INSERT" => stmt.columns # <<>>
     /\ IF kind = "sqlite"
          THEN /\ \A k \in DOMAIN phs : phs[k].sym = "?"
               /\ Len(args) = Len(phs)
               /\ stmt.offset # Absent => stmt.limit # Absent
          ELSE /\ \A k \in DOMAIN phs : phs[k].sym = "$"
               /\ used = 1..Len(args)
               /\ stmt.limit # MinusOne

\* the row an INSERT adds: the listed columns take their arguments, the others NULL
InsertedRow(stmt, args) ==
  [c \in ColNames |->
     IF \E i \in DOMAIN stmt.columns : Unquote(stmt.columns[i]) = c
       THEN ArgAt(stmt, CHOOSE i \in DOMAIN stmt.columns : Unquote(stmt.columns[i]) = c,
                  args)
       ELSE Null]

\* the WHERE condition: every clause's column equals its argument
Matches(r, stmt, args) ==
  \A j \in DOMAIN stmt.where :
    r[Unquote(stmt.where[j].col)] =
      ArgAt(stmt, Len(stmt.values) + Len(stmt.set) + j, args)

\* the row an UPDATE leaves in place of r
UpdatedRow(r, stmt, args) ==
  IF ~Matches(r, stmt, args) THEN r
  ELSE [c \in ColNames |->
          IF \E i \in DOMAIN stmt.set : Unquote(stmt.set[i].col) = c
            THEN ArgAt(stmt,
                       Len(stmt.values)
                         + (CHOOSE i \in DOMAIN stmt.set : Unquote(stmt.set[i].col) = c),
                       args)
            ELSE r[c]]

\* the rows a SELECT * returns: the table's rows in storage order, without
\* the first OFFSET rows, at most LIMIT of them unless LIMIT is negative
Selected(t, stmt, args) ==
  LET lim == IF stmt.limit = Absent THEN -1
             ELSE IF stmt.limit = MinusOne THEN -1
             ELSE ArgAt(stmt, 1, args)
      off == IF stmt.offset = Absent THEN 0
             ELSE ArgAt(stmt, Len(Placeholders(stmt)), args)
      from == IF off > 0 THEN off ELSE 0
      upto == IF lim < 0 \/ from + lim > Len(t) THEN Len(t) ELSE from + lim
  IN SubSeq(t, from + 1, upto)

\* the driver's error
DriverErr == [kind |-> "driver"]

\* db.ExecContext / db.QueryContext: the table afterwards, the result set
\* (column names and one tuple per row) and the error; ok is FALSE when the
\* driver fails for a reason of its own (the context is cancelled, the server
\* is gone)
Engine(kind, call, t, ok) ==
  IF ~ok \/ ~Accepts(kind, call.stmt, call.args)
    THEN [tbl |-> t, columns |-> <<>>, tuples |-> <<>>, err |-> DriverErr]
  ELSE IF call.stmt.verb = "INSERT"
    THEN [tbl |-> Append(t, InsertedRow(call.stmt, call.args)),
          columns |-> <<>>, tuples |-> <<>>, err |-> NoErr]
  ELSE IF call.stmt.verb = "UPDATE"
    THEN [tbl |-> [i \in DOMAIN t |-> UpdatedRow(t[i], call.stmt, call.args)],
          columns |-> <<>>, tuples |-> <<>>, err |-> NoErr]
  ELSE IF call.stmt.verb = "DELETE"
    THEN [tbl |-> SelectSeq(t, LAMBDA r : ~Matches(r, call.stmt, call.args)),
          columns |-> <<>>, tuples |-> <<>>, err |-> NoErr]
  ELSE LET sel == Selected(t, call.stmt, call.args)
       IN [tbl |-> t, columns |-> TableCols,
           tuples |-> [i \in DOMAIN sel |->
                         [j \in DOMAIN TableCols |-> sel[i][TableCols[j]]]],
           err |-> NoErr]

\* Query's loop over the result set: row[col] = values[i] for each column.
\* The values are Go strings, which come back as strings; the conversion of
\* []byte to string does not touch them.
ScanRows(columns, tuples) ==
  [i \in DOMAIN tuples |->
     [c \in {columns[j] : j \in DOMAIN columns} |->
        tuples[i][CHOOSE j \in DOMAIN columns : columns[j] = c]]]

\* ------------------------------------------------------------------ schema

\* The tables DDL creates, alters and drops: schema maps the name of each to
\* its columns in declaration order, a column being
\* [name, type, notNull, dflt, pk, fks] with pk the 1-based place in the
\* primary key or 0 and fks its foreign keys.  The table t of the row
\* operations is there besides, with the columns TableCols, and no DDL of a
\* caller names it.

\* database.ColumnDef{Name, Type, NotNull, Default, PrimaryKey}; Default is a
\* *string, nil here being the empty sequence of fragments
ColumnDef(n, ty, notNull, dflt, pk) ==
  [Name |-> n, Type |-> ty, NotNull |-> notNull, Default |-> dflt, PrimaryKey |-> pk]

\* strings.TrimSpace(s) == "": s holds nothing but white space
IsBlank(str) == \A i \in DOMAIN str : str[i] \in {9, 10, 11, 12, 13, 32}

\* buildColumnDefinition: the parts joined by " "
buildColumnDefinition(col, allowInlinePK) ==
  IF IsBlank(col.Name) \/ IsBlank(col.Type)
    THEN [err |-> Errorf("column name and type are required"),
          def |-> [name |-> <<>>, type |-> <<>>, notNull |-> FALSE, dflt |-> <<>>,
                   pk |-> FALSE]]
  ELSE [err |-> NoErr,
        def |-> [name |-> quoteIdent(col.Name), type |-> col.Type,
                 notNull |-> col.NotNull, dflt |-> col.Default,
                 pk |-> col.PrimaryKey /\ allowInlinePK]]

\* buildCreateTableSQL marking every primary-key column inline and writing no
\* trailing clause
buildCreateTableSQLInlineAll(n, columns, ifNotExists) ==
  LET none == [verb |-> "CREATE TABLE", ifNotExists |-> ifNotExists, table |-> <<>>,
               defs |-> <<>>, primaryKey |-> <<>>]
      built == [i \in DOMAIN columns |-> buildColumnDefinition(columns[i], TRUE)]
      bad == {i \in DOMAIN columns : built[i].err # NoErr}
  IN IF IsBlank(n) THEN [err |-> Errorf("table name is required"), stmt |-> none]
     ELSE IF Len(columns) = 0
       THEN [err |-> Errorf("at least one column is required"), stmt |-> none]
     ELSE IF bad # {}
       THEN [err |-> built[CHOOSE i \in bad : \A j \in bad : i <= j].err, stmt |-> none]
     ELSE [err |-> NoErr,
           stmt |-> [none EXCEPT
                       !.table = quoteIdent(n),
                       !.defs = [i \in DOMAIN columns |-> built[i].def]]]

\* buildCreateTableSQL
buildCreateTableSQL(n, columns, ifNotExists) ==
  LET none == [verb |-> "CREATE TABLE", ifNotExists |-> ifNotExists, table |-> <<>>,
               defs |-> <<>>, primaryKey |-> <<>>]
      pks == SelectSeq([i \in DOMAIN columns |-> i], LAMBDA i : columns[i].PrimaryKey)
      pkCount == Len(pks)
      built == [i \in DOMAIN columns |->
                  buildColumnDefinition(columns[i], pkCount = 1 /\ columns[i].PrimaryKey)]
      bad == {i \in DOMAIN columns : built[i].err # NoErr}
      pkCols == [k \in DOMAIN pks |-> quoteIdent(columns[pks[k]].Name)]
  IN IF IsBlank(n) THEN [err |-> Errorf("table name is required"), stmt |-> none]
     ELSE IF Len(columns) = 0
       THEN [err |-> Errorf("at least one column is required"), stmt |-> none]
     ELSE IF bad # {}
       THEN [err |-> built[CHOOSE i \in bad : \A j \in bad : i <= j].err, stmt |-> none]
     ELSE [err |-> NoErr,
           stmt |-> [none EXCEPT
                       !.table = quoteIdent(n),
                       !.defs = [i \in DOMAIN columns |-> built[i].def],
                       !.primaryKey = IF Len(pkCols) > 1 THEN pkCols ELSE <<>>]]

\* the tables the database holds
ExistingTables(sch) == {TableName} \cup DOMAIN sch

\* the column a definition of CREATE TABLE or ADD COLUMN declares, pk being
\* its place in the PRIMARY KEY clause, 1 when it is declared inline, or 0
Declared(def, primaryKey) ==
  [name |-> Unquote(def.name), type |-> def.type, notNull |-> def.notNull,
   dflt |-> def.dflt,
   pk |-> IF def.pk THEN 1
          ELSE IF \E k \in DOMAIN primaryKey : primaryKey[k] = def.name
            THEN CHOOSE k \in DOMAIN primaryKey : primaryKey[k] = def.name
          ELSE 0,
   fks |-> <<>>]

\* the schema with table n set to columns cols
WithTable(sch, n, cols) ==
  [x \in (DOMAIN sch) \cup {n} |-> IF x = n THEN cols ELSE sch[x]]

\* db.ExecContext of a DDL statement: the schema afterwards and the error
SchemaEngine(kind, stmt, sch, ok) ==
  LET fail == [schema |-> sch, err |-> DriverErr]
      done(x) == [schema |-> x, err |-> NoErr]
      n == Unquote(stmt.table)
  IN IF ~ok \/ ~IsQuoted(stmt.table) THEN fail
     ELSE IF stmt.verb = "CREATE TABLE"
       THEN LET cols == [i \in DOMAIN stmt.defs |->
                           Declared(stmt.defs[i], stmt.primaryKey)]
            IN IF n \in ExistingTables(sch) THEN (IF stmt.ifNotExists THEN done(sch) ELSE fail)
               ELSE IF \/ \E i \in DOMAIN stmt.defs : ~IsQuoted(stmt.defs[i].name)
                       \/ Cardinality({cols[i].name : i \in DOMAIN cols}) # Len(cols)
                       \/ \E k \in DOMAIN stmt.primaryKey :
                            \A i \in DOMAIN stmt.defs :
                              stmt.defs[i].name # stmt.primaryKey[k]
                 THEN fail
               ELSE done(WithTable(sch, n, cols))
     ELSE IF stmt.verb = "DROP TABLE"
       THEN IF n \in DOMAIN sch THEN done([x \in (DOMAIN sch) \ {n} |-> sch[x]])
            ELSE IF stmt.ifExists /\ n \notin ExistingTables(sch) THEN done(sch)
            ELSE fail
     ELSE IF n \notin DOMAIN sch THEN fail
     ELSE IF stmt.verb = "ADD COLUMN"
       THEN IF ~IsQuoted(stmt.def.name)
                 \/ Unquote(stmt.def.name) \in {sch[n][i].name : i \in DOMAIN sch[n]}
              THEN fail
            ELSE done(WithTable(sch, n, Append(sch[n], Declared(stmt.def, <<>>))))
     ELSE IF stmt.verb = "DROP COLUMN"
       THEN IF \/ ~IsQuoted(stmt.column)
               \/ Len(sch[n]) <= 1
               \/ ~\E i \in DOMAIN sch[n] :
                     sch[n][i].name = Unquote(stmt.column) /\ sch[n][i].pk = 0
              THEN fail
            ELSE done(WithTable(sch, n,
                   SelectSeq(sch[n], LAMBDA c : c.name # Unquote(stmt.column))))
     ELSE fail

\* ------------------------------------------------------------------ methods

\* Each method of an adapter as one operator: a is the receiver, t the table
\* before the call, ok whether the driver carries the statement out, and
\* visit (keyVisit) the order in which orderedKeys' range loop visits the keys
\* of data (key).  The result is the error returned, the statements handed to
\* the driver, the table afterwards and the rows returned.
Result(err, stmts, t, rows) == [err |-> err, stmts |-> stmts, tbl |-> t, rows |-> rows]

\* a return before any statement is built
Refused(err, t) == Result(err, <<>>, t, <<>>)

\* mutation of ensureConnected: the receiver is never checked
ensureConnectedSkipped(a) == NoErr

\* ensureConnected: if s.db == nil { return database.ErrNotConnected }
ensureConnected(a) == IF a.db THEN NoErr ELSE ErrNotConnected

\* Query of either adapter: QueryContext, then one Row per tuple scanned
Query(kind, a, call, t, ok) ==
  IF ensureConnected(a) # NoErr THEN Refused(ensureConnected(a), t)
  ELSE LET r == Engine(kind, call, t, ok)
       IN IF r.err # NoErr THEN Result(r.err, <<call>>, r.tbl, <<>>)
          ELSE Result(NoErr, <<call>>, r.tbl, ScanRows(r.columns, r.tuples))

\* Exec of either adapter
Exec(kind, a, call, t, ok) ==
  IF ensureConnected(a) # NoErr THEN Refused(ensureConnected(a), t)
  ELSE LET r == Engine(kind, call, t, ok)
       IN Result(r.err, <<call>>, r.tbl, <<>>)

\* mutation of SQLiteRows: OFFSET is written without the LIMIT -1 before it
SQLiteRowsBareOffset(a, table, limit, offset, t, ok) ==
  IF ensureConnected(a) # NoErr THEN Refused(ensureConnected(a), t)
  ELSE LET q1 == Statement("SELECT", table)
           a1 == <<>>
           q2 == IF limit > 0 THEN [q1 EXCEPT !.limit = Placeholder("sqlite", 0)] ELSE q1
           a2 == IF limit > 0 THEN Append(a1, limit) ELSE a1
           q4 == IF offset > 0 THEN [q2 EXCEPT !.offset = Placeholder("sqlite", 0)] ELSE q2
           a4 == IF offset > 0 THEN Append(a2, offset) ELSE a2
       IN Query("sqlite", a, Call(q4, a4), t, ok)

\* (*SQLite).Rows
SQLiteRows(a, table, limit, offset, t, ok) ==
  IF ensureConnected(a) # NoErr THEN Refused(ensureConnected(a), t)
  ELSE LET q1 == Statement("SELECT", table)
           a1 == <<>>
           q2 == IF limit > 0 THEN [q1 EXCEPT !.limit = Placeholder("sqlite", 0)] ELSE q1
           a2 == IF limit > 0 THEN Append(a1, limit) ELSE a1
           q3 == IF offset > 0 /\ limit <= 0 THEN [q2 EXCEPT !.limit = MinusOne] ELSE q2
           q4 == IF offset > 0 THEN [q3 EXCEPT !.offset = Placeholder("sqlite", 0)] ELSE q3
           a4 == IF offset > 0 THEN Append(a2, offset) ELSE a2
       IN Query("sqlite", a, Call(q4, a4), t, ok)

\* (*Postgres).Rows
PostgresRows(a, table, limit, offset, t, ok) ==
  IF ensureConnected(a) # NoErr THEN Refused(ensureConnected(a), t)
  ELSE LET q1 == Statement("SELECT", table)
           a1 == <<>>
           q2 == IF limit > 0 THEN [q1 EXCEPT !.limit = Placeholder("postgres", Len(a1) + 1)] ELSE q1
           a2 == IF limit > 0 THEN Append(a1, limit) ELSE a1
           q3 == IF offset > 0 THEN [q2 EXCEPT !.offset = Placeholder("postgres", Len(a2) + 1)] ELSE q2
           a3 == IF offset > 0 THEN Append(a2, offset) ELSE a2
       IN Query("postgres", a, Call(q3, a3), t, ok)

\* mutation of SQLiteInsert: the empty row is not rejected
SQLiteInsertUnchecked(a, table, data, visit, t, ok) ==
  IF ensureConnected(a) # NoErr THEN Refused(ensureConnected(a), t)
  ELSE LET keys == orderedKeys(visit)
           call == Call([Statement("INSERT", table) EXCEPT
                           !.columns = [i \in DOMAIN keys |-> quoteIdent(keys[i])],
                           !.values = [i \in DOMAIN keys |-> Placeholder("sqlite", 0)]],
                        [i \in DOMAIN keys |-> data[keys[i]]])
           r == Engine("sqlite", call, t, ok)
       IN Result(r.err, <<call>>, r.tbl, <<>>)

\* (*SQLite).Insert
SQLiteInsert(a, table, data, visit, t, ok) ==
  IF ensureConnected(a) # NoErr THEN Refused(ensureConnected(a), t)
  ELSE IF Cardinality(DOMAIN data) = 0 THEN Refused(Errorf("no data to insert"), t)
  ELSE LET keys == orderedKeys(visit)
           call == Call([Statement("INSERT", table) EXCEPT
                           !.columns = [i \in DOMAIN keys |-> quoteIdent(keys[i])],
                           !.values = [i \in DOMAIN keys |-> Placeholder("sqlite", 0)]],
                        [i \in DOMAIN keys |-> data[keys[i]]])
           r == Engine("sqlite", call, t, ok)
       IN Result(r.err, <<call>>, r.tbl, <<>>)

\* mutation of PostgresInsert: the values are taken in the order of the visit
PostgresInsertValuesAsVisited(a, table, data, visit, t, ok) ==
  IF ensureConnected(a) # NoErr THEN Refused(ensureConnected(a), t)
  ELSE IF Cardinality(DOMAIN data) = 0 THEN Refused(Errorf("no data to insert"), t)
  ELSE LET keys == orderedKeys(visit)
           call == Call([Statement("INSERT", table) EXCEPT
                           !.columns = [i \in DOMAIN keys |-> quoteIdent(keys[i])],
                           !.values = [i \in DOMAIN keys |-> Placeholder("postgres", i)]],
                        [i \in DOMAIN keys |-> data[visit[i]]])
           r == Engine("postgres", call, t, ok)
       IN Result(r.err, <<call>>, r.tbl, <<>>)

\* (*Postgres).Insert
PostgresInsert(a, table, data, visit, t, ok) ==
  IF ensureConnected(a) # NoErr THEN Refused(ensureConnected(a), t)
  ELSE IF Cardinality(DOMAIN data) = 0 THEN Refused(Errorf("no data to insert"), t)
  ELSE LET keys == orderedKeys(visit)
           call == Call([Statement("INSERT", table) EXCEPT
                           !.columns = [i \in DOMAIN keys |-> quoteIdent(keys[i])],
                           !.values = [i \in DOMAIN keys |-> Placeholder("postgres", i)]],
                        [i \in DOMAIN keys |-> data[keys[i]]])
           r == Engine("postgres", call, t, ok)
       IN Result(r.err, <<call>>, r.tbl, <<>>)

\* buildWhere of the SQLite adapter; keyVisit is the visit of orderedKeys(key)
SQLiteBuildWhere(key, keyVisit) ==
  IF Cardinality(DOMAIN key) = 0
    THEN [where |-> <<>>, args |-> <<>>, err |-> Errorf("where key is empty")]
  ELSE LET cols == orderedKeys(keyVisit)
       IN [where |-> [i \in DOMAIN cols |-> Clause(cols[i], Placeholder("sqlite", 0))],
           args |-> [i \in DOMAIN cols |-> key[cols[i]]],
           err |-> NoErr]

\* buildWhere of the PostgreSQL adapter
PostgresBuildWhere(key, startParamIndex, keyVisit) ==
  IF Cardinality(DOMAIN key) = 0
    THEN [where |-> <<>>, args |-> <<>>, err |-> Errorf("where key is empty")]
  ELSE LET cols == orderedKeys(keyVisit)
       IN [where |-> [i \in DOMAIN cols |->
                        Clause(cols[i], Placeholder("postgres", startParamIndex + (i - 1)))],
           args |-> [i \in DOMAIN cols |-> key[cols[i]]],
           err |-> NoErr]

\* mutation of SQLiteUpdate: the WHERE arguments are put before the SET ones
SQLiteUpdateKeyFirst(a, table, key, data, visit, keyVisit, t, ok) ==
  IF ensureConnected(a) # NoErr THEN Refused(ensureConnected(a), t)
  ELSE IF Cardinality(DOMAIN key) = 0 THEN Refused(Errorf("no primary key provided"), t)
  ELSE IF Cardinality(DOMAIN data) = 0 THEN Refused(Errorf("no data to update"), t)
  ELSE LET keys == orderedKeys(visit)
           set == [i \in DOMAIN keys |-> data[keys[i]]]
           w == SQLiteBuildWhere(key, keyVisit)
           call == Call([Statement("UPDATE", table) EXCEPT
                           !.set = [i \in DOMAIN keys |-> Clause(keys[i], Placeholder("sqlite", 0))],
                           !.where = w.where],
                        w.args \o set)
           r == Engine("sqlite", call, t, ok)
       IN IF w.err # NoErr THEN Refused(w.err, t)
          ELSE Result(r.err, <<call>>, r.tbl, <<>>)

\* (*SQLite).Update
SQLiteUpdate(a, table, key, data, visit, keyVisit, t, ok) ==
  IF ensureConnected(a) # NoErr THEN Refused(ensureConnected(a), t)
  ELSE IF Cardinality(DOMAIN key) = 0 THEN Refused(Errorf("no primary key provided"), t)
  ELSE IF Cardinality(DOMAIN data) = 0 THEN Refused(Errorf("no data to update"), t)
  ELSE LET keys == orderedKeys(visit)
           set == [i \in DOMAIN keys |-> data[keys[i]]]
           w == SQLiteBuildWhere(key, keyVisit)
           call == Call([Statement("UPDATE", table) EXCEPT
                           !.set = [i \in DOMAIN keys |-> Clause(keys[i], Placeholder("sqlite", 0))],
                           !.where = w.where],
                        set \o w.args)
           r == Engine("sqlite", call, t, ok)
       IN IF w.err # NoErr THEN Refused(w.err, t)
          ELSE Result(r.err, <<call>>, r.tbl, <<>>)

\* mutation of PostgresUpdate: the WHERE placeholders are numbered from 1 again
PostgresUpdateRestart(a, table, key, data, visit, keyVisit, t, ok) ==
  IF ensureConnected(a) # NoErr THEN Refused(ensureConnected(a), t)
  ELSE IF Cardinality(DOMAIN key) = 0 THEN Refused(Errorf("no primary key provided"), t)
  ELSE IF Cardinality(DOMAIN data) = 0 THEN Refused(Errorf("no data to update"), t)
  ELSE LET keys == orderedKeys(visit)
           set == [i \in DOMAIN keys |-> data[keys[i]]]
           w == PostgresBuildWhere(key, 1, keyVisit)
           call == Call([Statement("UPDATE", table) EXCEPT
                           !.set = [i \in DOMAIN keys |-> Clause(keys[i], Placeholder("postgres", i))],
                           !.where = w.where],
                        set \o w.args)
           r == Engine("postgres", call, t, ok)
       IN IF w.err # NoErr THEN Refused(w.err, t)
          ELSE Result(r.err, <<call>>, r.tbl, <<>>)

\* (*Postgres).Update: each SET placeholder is numbered len(args) after its
\* argument was appended, the WHERE ones from len(args)+1
PostgresUpdate(a, table, key, data, visit, keyVisit, t, ok) ==
  IF ensureConnected(a) # NoErr THEN Refused(ensureConnected(a), t)
  ELSE IF Cardinality(DOMAIN key) = 0 THEN Refused(Errorf("no primary key provided"), t)
  ELSE IF Cardinality(DOMAIN data) = 0 THEN Refused(Errorf("no data to update"), t)
  ELSE LET keys == orderedKeys(visit)
           set == [i \in DOMAIN keys |-> data[keys[i]]]
           w == PostgresBuildWhere(key, Len(set) + 1, keyVisit)
           call == Call([Statement("UPDATE", table) EXCEPT
                           !.set = [i \in DOMAIN keys |-> Clause(keys[i], Placeholder("postgres", i))],
                           !.where = w.where],
                        set \o w.args)
           r == Engine("postgres", call, t, ok)
       IN IF w.err # NoErr THEN Refused(w.err, t)
          ELSE Result(r.err, <<call>>, r.tbl, <<>>)

\* mutation of SQLiteDelete: neither the method nor buildWhere's result is checked
SQLiteDeleteAnyKey(a, table, key, keyVisit, t, ok) ==
  IF ensureConnected(a) # NoErr THEN Refused(ensureConnected(a), t)
  ELSE LET w == SQLiteBuildWhere(key, keyVisit)
           call == Call([Statement("DELETE", table) EXCEPT !.where = w.where], w.args)
           r == Engine("sqlite", call, t, ok)
       IN Result(r.err, <<call>>, r.tbl, <<>>)

\* (*SQLite).Delete
SQLiteDelete(a, table, key, keyVisit, t, ok) ==
  IF ensureConnected(a) # NoErr THEN Refused(ensureConnected(a), t)
  ELSE IF Cardinality(DOMAIN key) = 0 THEN Refused(Errorf("no primary key provided"), t)
  ELSE LET w == SQLiteBuildWhere(key, keyVisit)
           call == Call([Statement("DELETE", table) EXCEPT !.where = w.where], w.args)
           r == Engine("sqlite", call, t, ok)
       IN IF w.err # NoErr THEN Refused(w.err, t)
          ELSE Result(r.err, <<call>>, r.tbl, <<>>)

\* mutation of PostgresDelete: the WHERE is built from the first key column alone
PostgresDeleteByFirstColumn(a, table, key, keyVisit, t, ok) ==
  IF ensureConnected(a) # NoErr THEN Refused(ensureConnected(a), t)
  ELSE IF Cardinality(DOMAIN key) = 0 THEN Refused(Errorf("no primary key provided"), t)
  ELSE LET first == orderedKeys(keyVisit)[1]
           w == PostgresBuildWhere([c \in {first} |-> key[c]], 1, <<first>>)
           call == Call([Statement("DELETE", table) EXCEPT !.where = w.where], w.args)
           r == Engine("postgres", call, t, ok)
       IN IF w.err # NoErr THEN Refused(w.err, t)
          ELSE Result(r.err, <<call>>, r.tbl, <<>>)

\* (*Postgres).Delete
PostgresDelete(a, table, key, keyVisit, t, ok) ==
  IF ensureConnected(a) # NoErr THEN Refused(ensureConnected(a), t)
  ELSE IF Cardinality(DOMAIN key) = 0 THEN Refused(Errorf("no primary key provided"), t)
  ELSE LET w == PostgresBuildWhere(key, 1, keyVisit)
           call == Call([Statement("DELETE", table) EXCEPT !.where = w.where], w.args)
           r == Engine("postgres", call, t, ok)
       IN IF w.err # NoErr THEN Refused(w.err, t)
          ELSE Result(r.err, <<call>>, r.tbl, <<>>)

\* "TEXT"
TextType == <<84, 69, 88, 84>>

\* the columns of a table: those of t, those the schema holds, or none
ColumnsOf(sch, n) ==
  IF n = TableName
    THEN [i \in DOMAIN TableCols |->
            [name |-> TableCols[i], type |-> TextType, notNull |-> FALSE,
             dflt |-> <<>>, pk |-> 0, fks |-> <<>>]]
  ELSE IF n \in DOMAIN sch THEN sch[n]
  ELSE <<>>

\* db.QueryContext of a metadata query: the tuples of the result set.  The
\* PRAGMAs take the quoted table in their text, the information_schema
\* queries take the table name as argument $1.
MetaEngine(call, sch) ==
  LET n == IF call.args = <<>> THEN Unquote(call.stmt.table) ELSE call.args[1]
      cols == ColumnsOf(sch, n)
  IN IF call.stmt.verb \in {"sqlite_master", "pg_tables"}
       THEN SortStrings(CHOOSE o \in Orders(ExistingTables(sch)) : TRUE)
     ELSE IF call.stmt.verb \in {"PRAGMA table_info", "information_schema.columns"}
       THEN cols
     ELSE IF call.stmt.verb = "information_schema primary keys"
       THEN SelectSeq(cols, LAMBDA c : c.pk > 0)
     ELSE SelectSeq(cols, LAMBDA c : c.fks # <<>>)

\* a statement whose text is fixed, or fixed but for the quoted table
MetaQuery(verb, quoted, args) == Call([verb |-> verb, table |-> quoted], args)

\* what a method that works on the schema returns: the error, the statements
\* handed to the driver, the schema afterwards and the value returned
SchemaResult(err, stmts, sch, rows) ==
  [err |-> err, stmts |-> stmts, schema |-> sch, rows |-> rows]

\* Ping
Ping(kind, a, sch, ok) ==
  IF ensureConnected(a) # NoErr THEN SchemaResult(ensureConnected(a), <<>>, sch, <<>>)
  ELSE SchemaResult(IF ok THEN NoErr ELSE DriverErr, <<>>, sch, <<>>)

\* Tables
Tables(kind, a, sch, ok) ==
  IF ensureConnected(a) # NoErr THEN SchemaResult(ensureConnected(a), <<>>, sch, <<>>)
  ELSE LET call == MetaQuery(IF kind = "sqlite" THEN "sqlite_master" ELSE "pg_tables",
                             <<>>, <<>>)
       IN IF ~ok THEN SchemaResult(DriverErr, <<call>>, sch, <<>>)
          ELSE SchemaResult(NoErr, <<call>>, sch, MetaEngine(call, sch))

\* database.Column as Columns builds it from one row of the column query
Column(c, isPk, pkIndex, fks) ==
  [Name |-> c.name, Type |-> c.type, NotNull |-> c.notNull, Default |-> c.dflt,
   PrimaryKey |-> isPk, PrimaryKeyIndex |-> pkIndex, ForeignKeys |-> fks]

\* (*SQLite).Columns: foreignKeys first, then PRAGMA table_info; pk is the
\* column's place in the primary key as table_info reports it.  seen[i] is
\* the schema the i-th query found: the same for both when nothing changes
\* the schema between them.
SQLiteColumns(a, table, seen, ok) ==
  LET sch == seen[Len(seen)] IN
  IF ensureConnected(a) # NoErr THEN SchemaResult(ensureConnected(a), <<>>, sch, <<>>)
  ELSE LET fkCall == MetaQuery("PRAGMA foreign_key_list", quoteIdent(table), <<>>)
           colCall == MetaQuery("PRAGMA table_info", quoteIdent(table), <<>>)
           withFk == MetaEngine(fkCall, seen[1])
           fkMap(n) == IF \E i \in DOMAIN withFk : withFk[i].name = n
                         THEN (CHOOSE c \in {withFk[i] : i \in DOMAIN withFk} :
                                 c.name = n).fks
                         ELSE <<>>
           info == MetaEngine(colCall, seen[2])
       IN IF ~ok THEN SchemaResult(DriverErr, <<fkCall>>, sch, <<>>)
          ELSE SchemaResult(NoErr, <<fkCall, colCall>>, sch,
                 [i \in DOMAIN info |->
                    Column(info[i], info[i].pk > 0, info[i].pk, fkMap(info[i].name))])

\* (*SQLite).Columns as sqlite.go holds it: the same two queries, PrimaryKey
\* set from pk == 1, and a database.Column without PrimaryKeyIndex, which a
\* reader of the ordinal finds to be 0
SQLiteColumnsInSqliteGo(a, table, seen, ok) ==
  LET r == SQLiteColumns(a, table, seen, ok)
      info == MetaEngine(MetaQuery("PRAGMA table_info", quoteIdent(table), <<>>), seen[2])
  IN [r EXCEPT !.rows = [i \in DOMAIN r.rows |->
                           [r.rows[i] EXCEPT !.PrimaryKey = (info[i].pk = 1),
                                             !.PrimaryKeyIndex = 0]]]

\* (*Postgres).Columns: the primary keys, the foreign keys, then the columns
PostgresColumns(a, table, seen, ok) ==
  LET sch == seen[Len(seen)] IN
  IF ensureConnected(a) # NoErr THEN SchemaResult(ensureConnected(a), <<>>, sch, <<>>)
  ELSE LET pkCall == MetaQuery("information_schema primary keys", <<>>, <<table>>)
           fkCall == MetaQuery("information_schema foreign keys", <<>>, <<table>>)
           colCall == MetaQuery("information_schema.columns", <<>>, <<table>>)
           pkRows == MetaEngine(pkCall, seen[1])
           fkRows == MetaEngine(fkCall, seen[2])
           isPk(n) == \E i \in DOMAIN pkRows : pkRows[i].name = n
           pks(n) == IF isPk(n)
                       THEN (CHOOSE c \in {pkRows[i] : i \in DOMAIN pkRows} :
                               c.name = n).pk
                       ELSE 0
           fks(n) == IF \E i \in DOMAIN fkRows : fkRows[i].name = n
                       THEN (CHOOSE c \in {fkRows[i] : i \in DOMAIN fkRows} :
                               c.name = n).fks
                       ELSE <<>>
           info == MetaEngine(colCall, seen[3])
       IN IF ~ok THEN SchemaResult(DriverErr, <<pkCall>>, sch, <<>>)
          ELSE SchemaResult(NoErr, <<pkCall, fkCall, colCall>>, sch,
                 [i \in DOMAIN info |->
                    Column(info[i], isPk(info[i].name), pks(info[i].name),
                           fks(info[i].name))])

\* CreateTable
CreateTable(kind, a, n, columns, ifNotExists, sch, ok) ==
  IF ensureConnected(a) # NoErr THEN SchemaResult(ensureConnected(a), <<>>, sch, <<>>)
  ELSE LET b == buildCreateTableSQL(n, columns, ifNotExists)
           r == SchemaEngine(kind, b.stmt, sch, ok)
       IN IF b.err # NoErr THEN SchemaResult(b.err, <<>>, sch, <<>>)
          ELSE SchemaResult(r.err, <<Call(b.stmt, <<>>)>>, r.schema, <<>>)

\* AddColumn
AddColumn(kind, a, table, column, sch, ok) ==
  IF ensureConnected(a) # NoErr THEN SchemaResult(ensureConnected(a), <<>>, sch, <<>>)
  ELSE IF IsBlank(table) THEN SchemaResult(Errorf("table name is required"), <<>>, sch, <<>>)
  ELSE IF column.PrimaryKey
    THEN SchemaResult(Errorf("adding primary key columns via ALTER TABLE is not supported"),
                      <<>>, sch, <<>>)
  ELSE LET b == buildColumnDefinition(column, FALSE)
           stmt == [verb |-> "ADD COLUMN", table |-> quoteIdent(table), def |-> b.def]
           r == SchemaEngine(kind, stmt, sch, ok)
       IN IF b.err # NoErr THEN SchemaResult(b.err, <<>>, sch, <<>>)
          ELSE SchemaResult(r.err, <<Call(stmt, <<>>)>>, r.schema, <<>>)

\* DropColumn
DropColumn(kind, a, table, column, sch, ok) ==
  IF ensureConnected(a) # NoErr THEN SchemaResult(ensureConnected(a), <<>>, sch, <<>>)
  ELSE IF IsBlank(table) \/ IsBlank(column)
    THEN SchemaResult(Errorf("table and column are required"), <<>>, sch, <<>>)
  ELSE LET stmt == [verb |-> "DROP COLUMN", table |-> quoteIdent(table),
                    column |-> quoteIdent(column)]
           r == SchemaEngine(kind, stmt, sch, ok)
       IN SchemaResult(r.err, <<Call(stmt, <<>>)>>, r.schema, <<>>)

\* DropTable
DropTable(kind, a, table, ifExists, sch, ok) ==
  IF ensureConnected(a) # NoErr THEN SchemaResult(ensureConnected(a), <<>>, sch, <<>>)
  ELSE IF IsBlank(table) THEN SchemaResult(Errorf("table name is required"), <<>>, sch, <<>>)
  ELSE LET stmt == [verb |-> "DROP TABLE", ifExists |-> ifExists,
                    table |-> quoteIdent(table)]
           r == SchemaEngine(kind, stmt, sch, ok)
       IN SchemaResult(r.err, <<Call(stmt, <<>>)>>, r.schema, <<>>)

\* ------------------------------------------------------------------ adapter calls

\* A caller holds one adapter, recv, and calls its methods one after the
\* other: each call runs to its end, the caller has its result (last), and
\* goes on; last.op is "none" between two calls.  The method that runs is
\* the one of the receiver's type.

\* the record of a call: its arguments, the receiver and the database as the
\* call found them, whether the driver carried out what it was handed, the
\* statements handed to it and what the call returned
Called(op, key, data, limit, offset, ok, r) ==
  [op |-> op, key |-> key, data |-> data, limit |-> limit, offset |-> offset,
   connected |-> recv.db, before |-> tbl, schema |-> schema, driver |-> ok,
   stmts |-> r.stmts, err |-> r.err, rows |-> r.rows]

\* db.Connect(ctx, conn) on an adapter that holds no handle
ReceiverConnect ==
  /\ last.op = "none"
  /\ ~recv.db
  /\ \E ok \in BOOLEAN :
       /\ recv' = Connect(recv, ok)
       /\ pool' = IF ok THEN pool + 1 ELSE pool
       /\ last' = Called("Connect", EmptyRow, EmptyRow, 0, 0, ok,
                         Refused(ConnectResult(1, ok), tbl))
  /\ UNCHANGED <<tbl, schema, registryVars, run>>

\* db.Close()
ReceiverClose ==
  /\ last.op = "none"
  /\ \E ok \in BOOLEAN :
       /\ recv' = Close(recv)
       /\ pool' = IF recv.db THEN pool - 1 ELSE pool
       /\ last' = Called("Close", EmptyRow, EmptyRow, 0, 0, ok,
                         Refused(CloseResult(recv, 1, ok), tbl))
  /\ UNCHANGED <<tbl, schema, registryVars, run>>

\* db.Rows(ctx, table, limit, offset)
ReceiverRows(P) ==
  /\ last.op = "none"
  /\ \E limit \in P, offset \in P, ok \in BOOLEAN :
       LET r == IF recv.kind = "sqlite"
                  THEN SQLiteRows(recv, TableName, limit, offset, tbl, ok)
                  ELSE PostgresRows(recv, TableName, limit, offset, tbl, ok)
       IN /\ tbl' = r.tbl
          /\ last' = Called("Rows", EmptyRow, EmptyRow, limit, offset, ok, r)
  /\ UNCHANGED <<recv, pool, schema, registryVars, run>>

\* db.Insert(ctx, table, data)
ReceiverInsert(M) ==
  /\ last.op = "none"
  /\ Len(tbl) < MaxRows
  /\ \E data \in M, ok \in BOOLEAN :
       \E visit \in Orders(DOMAIN data) :
         LET r == IF recv.kind = "sqlite"
                    THEN SQLiteInsert(recv, TableName, data, visit, tbl, ok)
                    ELSE PostgresInsert(recv, TableName, data, visit, tbl, ok)
         IN /\ tbl' = r.tbl
            /\ last' = Called("Insert", EmptyRow, data, 0, 0, ok, r)
  /\ UNCHANGED <<recv, pool, schema, registryVars, run>>

\* db.Update(ctx, table, key, data)
ReceiverUpdate(M) ==
  /\ last.op = "none"
  /\ \E key \in M, data \in M, ok \in BOOLEAN :
       \E visit \in Orders(DOMAIN data), keyVisit \in Orders(DOMAIN key) :
         LET r == IF recv.kind = "sqlite"
                    THEN SQLiteUpdate(recv, TableName, key, data, visit, keyVisit, tbl, ok)
                    ELSE PostgresUpdate(recv, TableName, key, data, visit, keyVisit, tbl, ok)
         IN /\ tbl' = r.tbl
            /\ last' = Called("Update", key, data, 0, 0, ok, r)
  /\ UNCHANGED <<recv, pool, schema, registryVars, run>>

\* db.Delete(ctx, table, key)
ReceiverDelete(M) ==
  /\ last.op = "none"
  /\ \E key \in M, ok \in BOOLEAN :
       \E keyVisit \in Orders(DOMAIN key) :
         LET r == IF recv.kind = "sqlite"
                    THEN SQLiteDelete(recv, TableName, key, keyVisit, tbl, ok)
                    ELSE PostgresDelete(recv, TableName, key, keyVisit, tbl, ok)
         IN /\ tbl' = r.tbl
            /\ last' = Called("Delete", key, EmptyRow, 0, 0, ok, r)
  /\ UNCHANGED <<recv, pool, schema, registryVars, run>>

\* db.Ping(ctx)
ReceiverPing ==
  /\ last.op = "none"
  /\ \E ok \in BOOLEAN :
       last' = Called("Ping", EmptyRow, EmptyRow, 0, 0, ok, Ping(recv.kind, recv, schema, ok))
  /\ UNCHANGED <<recv, pool, tbl, schema, registryVars, run>>

\* db.Tables(ctx)
ReceiverTables ==
  /\ last.op = "none"
  /\ \E ok \in BOOLEAN :
       last' = Called("Tables", EmptyRow, EmptyRow, 0, 0, ok,
                      Tables(recv.kind, recv, schema, ok))
  /\ UNCHANGED <<recv, pool, tbl, schema, registryVars, run>>

\* db.Columns(ctx, table); the package sqlite holds two texts of Columns, the
\* one of sqlite.go and the one beside the composite-key methods, and the
\* SQLite receiver runs either
ReceiverColumns(T) ==
  /\ last.op = "none"
  /\ \E table \in T, ok \in BOOLEAN :
       \E r \in (IF recv.kind = "sqlite"
                   THEN {SQLiteColumns(recv, table, <<schema, schema>>, ok),
                         SQLiteColumnsInSqliteGo(recv, table, <<schema, schema>>, ok)}
                 ELSE {PostgresColumns(recv, table, <<schema, schema, schema>>, ok)}) :
         last' = Called("Columns", EmptyRow, [table |-> table], 0, 0, ok, r)
  /\ UNCHANGED <<recv, pool, tbl, schema, registryVars, run>>

\* db.CreateTable(ctx, name, columns, ifNotExists)
ReceiverCreateTable(T, L) ==
  /\ last.op = "none"
  /\ \E table \in T, columns \in L, ifNotExists \in BOOLEAN, ok \in BOOLEAN :
       LET r == CreateTable(recv.kind, recv, table, columns, ifNotExists, schema, ok)
       IN /\ schema' = r.schema
          /\ last' = Called("CreateTable", EmptyRow,
                            [table |-> table, columns |-> columns,
                             ifNotExists |-> ifNotExists], 0, 0, ok, r)
  /\ UNCHANGED <<recv, pool, tbl, registryVars, run>>

\* db.AddColumn(ctx, table, column)
ReceiverAddColumn(T, D) ==
  /\ last.op = "none"
  /\ \E table \in T, column \in D, ok \in BOOLEAN :
       LET r == AddColumn(recv.kind, recv, table, column, schema, ok)
       IN /\ schema' = r.schema
          /\ last' = Called("AddColumn", EmptyRow,
                            [table |-> table, column |-> column], 0, 0, ok, r)
  /\ UNCHANGED <<recv, pool, tbl, registryVars, run>>

\* db.DropColumn(ctx, table, column)
ReceiverDropColumn(T, D) ==
  /\ last.op = "none"
  /\ \E table \in T, column \in D, ok \in BOOLEAN :
       LET r == DropColumn(recv.kind, recv, table, column.Name, schema, ok)
       IN /\ schema' = r.schema
          /\ last' = Called("DropColumn", EmptyRow,
                            [table |-> table, column |-> column.Name], 0, 0, ok, r)
  /\ UNCHANGED <<recv, pool, tbl, registryVars, run>>

\* db.DropTable(ctx, table, ifExists)
ReceiverDropTable(T) ==
  /\ last.op = "none"
  /\ \E table \in T, ifExists \in BOOLEAN, ok \in BOOLEAN :
       LET r == DropTable(recv.kind, recv, table, ifExists, schema, ok)
       IN /\ schema' = r.schema
          /\ last' = Called("DropTable", EmptyRow,
                            [table |-> table, ifExists |-> ifExists], 0, 0, ok, r)
  /\ UNCHANGED <<recv, pool, tbl, registryVars, run>>

\* the raw statements callers pass to Exec and Query: an INSERT of one value,
\* a DELETE by one column and a SELECT of all rows
RawCalls(kind) ==
  { Call([Statement("INSERT", TableName) EXCEPT
            !.columns = <<quoteIdent(TableCols[1])>>,
            !.values = <<Placeholder(kind, 1)>>], <<"x">>),
    Call([Statement("DELETE", TableName) EXCEPT
            !.where = <<Clause(TableCols[1], Placeholder(kind, 1))>>], <<"x">>),
    Call(Statement("SELECT", TableName), <<>>) }

\* db.Exec(ctx, query, args...)
ReceiverExec ==
  /\ last.op = "none"
  /\ \E call \in RawCalls(recv.kind), ok \in BOOLEAN :
       LET r == Exec(recv.kind, recv, call, tbl, ok)
       IN /\ call.stmt.verb = "INSERT" => Len(tbl) < MaxRows
          /\ tbl' = r.tbl
          /\ last' = Called("Exec", EmptyRow, call, 0, 0, ok, r)
  /\ UNCHANGED <<recv, pool, schema, registryVars, run>>

\* db.Query(ctx, query, args...)
ReceiverQuery ==
  /\ last.op = "none"
  /\ \E call \in RawCalls(recv.kind), ok \in BOOLEAN :
       LET r == Query(recv.kind, recv, call, tbl, ok)
       IN /\ call.stmt.verb = "INSERT" => Len(tbl) < MaxRows
          /\ tbl' = r.tbl
          /\ last' = Called("Query", EmptyRow, call, 0, 0, ok, r)
  /\ UNCHANGED <<recv, pool, schema, registryVars, run>>

\* the caller is done with the result of its call
ReceiverReturn ==
  /\ last.op # "none"
  /\ last' = NoCall
  /\ UNCHANGED <<recv, pool, tbl, schema, registryVars, run>>

\* ------------------------------------------------------------------ specification

Next ==
  \E p \in Procs :
    \/ CallAdd(p)
    \/ AddLock(p)
    \/ AddCheck(p)
    \/ AddConnect(p)
    \/ AddStore(p)
    \/ AddSetDefault(p)
    \/ AddRet(p)
    \/ CallGet(p)
    \/ GetRLock(p)
    \/ GetBody(p)
    \/ GetRet(p)
    \/ CallDefault(p)
    \/ DefaultRLock(p)
    \/ DefaultBody(p)
    \/ DefaultRet(p)
    \/ CallList(p)
    \/ ListRLock(p)
    \/ ListBody(p)
    \/ ListRet(p)
    \/ CallCloseAll(p)
    \/ CloseAllLock(p)
    \/ CloseAllRange(p)
    \/ CloseAllLoop(p)
    \/ CloseAllReset(p)
    \/ CloseAllResetDefault(p)
    \/ CloseAllRet(p)

Spec == Init /\ [][Next]_vars

\* sqlite.New() or postgresql.New(), and an empty table behind it
AdapterInit ==
  /\ RegistryInit
  /\ recv \in {NewAdapter("sqlite"), NewAdapter("postgres")}
  /\ pool = 0
  /\ tbl = <<>>
  /\ schema = <<>>
  /\ last = NoCall
  /\ run = [r \in 1..NumReqs |-> NoRequest]

\* the row operations of one adapter, with every key and row a caller may pass
CrudNext ==
  \/ ReceiverConnect
  \/ ReceiverClose
  \/ ReceiverRows(-1..MaxRows)
  \/ ReceiverInsert(Maps)
  \/ ReceiverUpdate(Maps)
  \/ ReceiverDelete(Maps)
  \/ ReceiverReturn

CrudSpec == AdapterInit /\ [][CrudNext]_vars

\* the i-th row of a table that was filled earlier: no two of them are equal
StoredRow(i) ==
  LET held == <<"x", "y", Null>>
  IN [c \in ColNames |->
        IF c = TableCols[1] THEN held[(i % 3) + 1] ELSE held[((i \div 3) % 3) + 1]]

\* sqlite.New() or postgresql.New() in front of a database whose table t
\* already holds rows
StoredInit ==
  /\ RegistryInit
  /\ recv \in {NewAdapter("sqlite"), NewAdapter("postgres")}
  /\ pool = 0
  /\ tbl \in {[i \in 1..n |-> StoredRow(i)] : n \in 0..MaxStored}
  /\ schema = <<>>
  /\ last = NoCall
  /\ run = [r \in 1..NumReqs |-> NoRequest]

\* reading such a table page by page, limit and offset from below zero to
\* beyond the number of rows
RowsNext ==
  \/ ReceiverConnect
  \/ ReceiverClose
  \/ ReceiverRows(-1..(MaxStored + 1))
  \/ ReceiverReturn

RowsSpec == StoredInit /\ [][RowsNext]_vars

\* the table names callers pass to the schema methods: "u" and " "
SchemaTables == {<<117>>, <<32>>}

\* the column definitions callers pass: id and k (INT, primary key), v (TEXT)
\* and one with a blank name
ColumnDefs ==
  [id |-> ColumnDef(<<105, 100>>, <<73, 78, 84>>, TRUE, <<>>, TRUE),
   k |-> ColumnDef(<<107>>, <<73, 78, 84>>, TRUE, <<>>, TRUE),
   v |-> ColumnDef(<<118>>, TextType, FALSE, <<>>, FALSE),
   blank |-> ColumnDef(<<32>>, TextType, FALSE, <<>>, FALSE)]

\* the column lists callers pass to CreateTable
ColumnLists ==
  {<<>>, <<ColumnDefs.id, ColumnDefs.v>>, <<ColumnDefs.id, ColumnDefs.k>>,
   <<ColumnDefs.blank>>}

\* a few rows and keys: none, one column, both columns
SomeMaps ==
  {EmptyRow, [c \in {TableCols[1]} |-> "x"], [c \in ColNames |-> "y"]}

\* every method of one adapter, each with valid and invalid arguments
AdapterNext ==
  \/ ReceiverConnect
  \/ ReceiverClose
  \/ ReceiverPing
  \/ ReceiverTables
  \/ ReceiverColumns(SchemaTables \cup {TableName})
  \/ ReceiverCreateTable(SchemaTables, ColumnLists)
  \/ ReceiverAddColumn(SchemaTables, {ColumnDefs[f] : f \in DOMAIN ColumnDefs})
  \/ ReceiverDropColumn(SchemaTables, {ColumnDefs[f] : f \in DOMAIN ColumnDefs})
  \/ ReceiverDropTable(SchemaTables)
  \/ ReceiverRows({0, 1})
  \/ ReceiverInsert(SomeMaps)
  \/ ReceiverUpdate(SomeMaps)
  \/ ReceiverDelete(SomeMaps)
  \/ ReceiverExec
  \/ ReceiverQuery
  \/ ReceiverReturn

AdapterSpec == AdapterInit /\ [][AdapterNext]_vars

\* the longest identifier a caller passes to be quoted
MaxLen == 3

\* the identifiers callers pass: every text of `"` and `a` up to that length
Identifiers == UNION {[1..k -> {34, 97}] : k \in 0..MaxLen}

\* DropTable called with every such identifier, on either adapter
QuoteNext ==
  \/ ReceiverConnect
  \/ ReceiverDropTable(Identifiers)
  \/ ReceiverReturn

QuoteSpec == AdapterInit /\ [][QuoteNext]_vars

\* the steps at which a goroutine competes with other writers for m.mu
Acquire(p) ==
  \/ AddLock(p)
  \/ CloseAllLock(p)

\* every other step of a method once it was called, the adapter calls included
Proceed(p) ==
  \/ AddCheck(p)
  \/ AddConnect(p)
  \/ AddStore(p)
  \/ AddSetDefault(p)
  \/ AddRet(p)
  \/ GetRLock(p)
  \/ GetBody(p)
  \/ GetRet(p)
  \/ DefaultRLock(p)
  \/ DefaultBody(p)
  \/ DefaultRet(p)
  \/ ListRLock(p)
  \/ ListBody(p)
  \/ ListRet(p)
  \/ CloseAllRange(p)
  \/ CloseAllLoop(p)
  \/ CloseAllReset(p)
  \/ CloseAllResetDefault(p)
  \/ CloseAllRet(p)

\* Scheduling: a runnable goroutine is eventually run and the adapter's
\* Connect and Close return (weak fairness of Proceed); a goroutine blocked in
\* Lock is not starved by other writers, since sync.Mutex hands the lock to a
\* waiter that keeps finding it taken (strong fairness of Acquire).  Whether a
\* caller starts another method is left open.
FairSpec ==
  /\ Spec
  /\ \A p \in Procs : WF_vars(Proceed(p)) /\ SF_vars(Acquire(p))

\* ------------------------------------------------------------------ one handle, many requests

\* Requests obtain the same adapter from the registry and call its methods
\* at the same time; the adapter has no lock of its own.  A method is followed
\* from one access to s.db or to the database to the next: the check of s.db,
\* each statement handed to database/sql, the end of a result set, and in
\* Close the call of s.db.Close() and the assignment s.db = nil.

\* what a method meets when it uses s.db after Close: once the field was
\* cleared the read is a data race with the assignment, and the method either
\* finds nil and panics in database/sql or finds the closed *sql.DB, which
\* answers "sql: database is closed"; before the field is cleared it finds the
\* closed *sql.DB
UseAfterClose(cleared) ==
  IF cleared
    THEN {[kind |-> "nil pointer dereference"], [kind |-> "sql: database is closed"]}
  ELSE {[kind |-> "sql: database is closed"]}

\* the calls requests make: Columns, CreateTable, AddColumn, DropColumn and
\* DropTable on table u, and Close
SharedCalls ==
  {[op |-> "Columns", data |-> [table |-> <<117>>]],
   [op |-> "CreateTable",
    data |-> [table |-> <<117>>, columns |-> <<ColumnDefs.id, ColumnDefs.v>>]],
   [op |-> "CreateTable",
    data |-> [table |-> <<117>>, columns |-> <<ColumnDefs.id, ColumnDefs.k>>]],
   [op |-> "AddColumn", data |-> [table |-> <<117>>, column |-> ColumnDefs.v]],
   [op |-> "DropColumn", data |-> [table |-> <<117>>, column |-> ColumnDefs.v]],
   [op |-> "DropTable", data |-> [table |-> <<117>>]],
   [op |-> "Close", data |-> EmptyRow]}

\* a request calls one of the methods C; the method begins with its check of
\* s.db
ReqCall(r, C) ==
  /\ run[r].pc = "idle"
  /\ \E c \in C :
       run' = [run EXCEPT ![r] =
                 IF c.op = "Close"
                   THEN [NoRequest EXCEPT !.op = c.op,
                                          !.pc = IF recv.db THEN "close" ELSE "done"]
                 ELSE IF ensureConnected(recv) # NoErr
                   THEN [NoRequest EXCEPT !.op = c.op, !.data = c.data, !.pc = "done",
                                          !.out.err = ensureConnected(recv)]
                 ELSE [NoRequest EXCEPT !.op = c.op, !.data = c.data, !.pc = "statement"]]
  /\ UNCHANGED <<recv, pool, tbl, schema, last, registryVars>>

\* s.db.QueryContext / s.db.ExecContext: the statement waits for a connection
\* of the pool, which for SQLite has one (SetMaxOpenConns(1)), and runs on the
\* schema as it is now; a query keeps the connection for its result set, an
\* Exec gives it back
ReqStatement(r) ==
  /\ run[r].pc = "statement"
  /\ IF ~recv.db \/ \E q \in DOMAIN run : run[q].pc = "clear"
       THEN /\ \E e \in UseAfterClose(~recv.db) :
                 run' = [run EXCEPT ![r].pc = "done", ![r].out.err = e]
            /\ schema' = schema
     ELSE /\ recv.kind = "sqlite" => \A q \in DOMAIN run : ~run[q].holds
          /\ IF run[r].op = "Columns"
               THEN /\ run' = [run EXCEPT ![r].pc = "rows", ![r].holds = TRUE,
                                          ![r].seen = Append(@, schema)]
                    /\ schema' = schema
             ELSE LET d == run[r].data
                      res == IF run[r].op = "CreateTable"
                               THEN CreateTable(recv.kind, recv, d.table, d.columns, FALSE,
                                                schema, TRUE)
                             ELSE IF run[r].op = "AddColumn"
                               THEN AddColumn(recv.kind, recv, d.table, d.column, schema, TRUE)
                             ELSE IF run[r].op = "DropColumn"
                               THEN DropColumn(recv.kind, recv, d.table, d.column.Name,
                                               schema, TRUE)
                             ELSE DropTable(recv.kind, recv, d.table, TRUE, schema, TRUE)
                  IN /\ run' = [run EXCEPT ![r].pc = "done", ![r].out.err = res.err]
                     /\ schema' = res.schema
  /\ UNCHANGED <<recv, pool, tbl, last, registryVars>>

\* mutation of ReqRows: the result set of foreignKeys is left open when
\* Columns goes on to its next query
ReqRowsLeftOpen(r) ==
  /\ run[r].pc = "rows"
  /\ run' = [run EXCEPT ![r].pc = "statement"]
  /\ UNCHANGED <<recv, pool, tbl, schema, last, registryVars>>

\* rows.Next() returns false: the result set is closed and its connection is
\* back in the pool (the deferred rows.Close() finds it closed).  Columns
\* goes on to its next query, or merges what its queries returned and returns.
ReqRows(r) ==
  /\ run[r].pc = "rows"
  /\ run' = [run EXCEPT ![r] =
               IF Len(run[r].seen) < (IF recv.kind = "sqlite" THEN 2 ELSE 3)
                 THEN [@ EXCEPT !.pc = "statement", !.holds = FALSE]
               ELSE [@ EXCEPT
                       !.pc = "done", !.holds = FALSE,
                       !.out.rows =
                         (IF recv.kind = "sqlite"
                            THEN SQLiteColumns(Connect(recv, TRUE), run[r].data.table,
                                               run[r].seen, TRUE)
                          ELSE PostgresColumns(Connect(recv, TRUE), run[r].data.table,
                                               run[r].seen, TRUE)).rows]]
  /\ UNCHANGED <<recv, pool, tbl, schema, last, registryVars>>

\* Close: err := s.db.Close().  When another Close has cleared the field since
\* the check, the read races with that assignment as above, and a closed
\* *sql.DB answers a second Close with nil.
ReqCloseHandle(r) ==
  /\ run[r].pc = "close"
  /\ IF recv.db
       THEN /\ \E ok \in BOOLEAN :
                 run' = [run EXCEPT ![r].pc = "clear",
                                    ![r].out.err = CloseResult(recv, 1, ok)]
            /\ pool' = IF \E q \in DOMAIN run : run[q].pc = "clear" THEN pool ELSE pool - 1
     ELSE /\ \E e \in {[kind |-> "nil pointer dereference"], NoErr} :
               run' = [run EXCEPT ![r].pc = "done", ![r].out.err = e]
          /\ pool' = pool
  /\ UNCHANGED <<recv, tbl, schema, last, registryVars>>

\* Close: s.db = nil; return err
ReqClearField(r) ==
  /\ run[r].pc = "clear"
  /\ recv' = Close(recv)
  /\ run' = [run EXCEPT ![r].pc = "done"]
  /\ UNCHANGED <<pool, tbl, schema, last, registryVars>>

\* the method returns to the request, which may call another
ReqReturn(r) ==
  /\ run[r].pc = "done"
  /\ run' = [run EXCEPT ![r] = NoRequest]
  /\ UNCHANGED <<recv, pool, tbl, schema, last, registryVars>>

\* an adapter the registry has connected, in front of a database that is empty
\* or holds a table u(id INTEGER PRIMARY KEY, v INTEGER REFERENCES t(B) ON
\* DELETE CASCADE) made with Exec
SharedInit ==
  /\ RegistryInit
  /\ recv \in {Connect(NewAdapter("sqlite"), TRUE), Connect(NewAdapter("postgres"), TRUE)}
  /\ pool = 1
  /\ tbl = <<>>
  /\ schema \in
       {<<>>,
        WithTable(<<>>, <<117>>,
          << [name |-> <<105, 100>>, type |-> <<73, 78, 84>>, notNull |-> FALSE,
              dflt |-> <<>>, pk |-> 1, fks |-> <<>>],
             [name |-> <<118>>, type |-> <<73, 78, 84>>, notNull |-> FALSE,
              dflt |-> <<>>, pk |-> 0,
              fks |-> << [RefTable |-> TableName, FromCol |-> <<118>>,
                          ToCol |-> TableCols[2], OnDelete |-> "CASCADE",
                          OnUpdate |-> "NO ACTION"] >>] >>)}
  /\ last = NoCall
  /\ run = [r \in 1..NumReqs |-> NoRequest]

SharedNext ==
  \E r \in 1..NumReqs :
    \/ ReqCall(r, SharedCalls)
    \/ ReqStatement(r)
    \/ ReqRows(r)
    \/ ReqCloseHandle(r)
    \/ ReqClearField(r)
    \/ ReqReturn(r)

SharedSpec == SharedInit /\ [][SharedNext]_vars

\* requests on a handle that is not closed: Columns, with its two queries, and
\* DropTable, with its one Exec
PoolNext ==
  \E r \in 1..NumReqs :
    \/ ReqCall(r, {c \in SharedCalls : c.op \in {"Columns", "DropTable"}})
    \/ ReqStatement(r)
    \/ ReqRows(r)
    \/ ReqReturn(r)

\* Such requests on either adapter.  Scheduling: a request that can take
\* its next step takes it (weak fairness of the steps that wait for nothing);
\* a statement that waits for the one connection gets it when it keeps being
\* given back, database/sql serving the waiting requests in the order they
\* came (strong fairness of ReqStatement).  Whether a request calls another
\* method is left open.
PoolFairSpec ==
  /\ SharedInit
  /\ [][PoolNext]_vars
  /\ \A r \in 1..NumReqs :
       /\ WF_vars(ReqRows(r) \/ ReqReturn(r))
       /\ SF_vars(ReqStatement(r))

\* ------------------------------------------------------------------ the connection listing

\* (*API).listConnections: the response is built from api.connections.List()
\* and then api.connections.Default(), two calls that each take and release
\* the read lock.  The first disjunct is the return of List, whose items the
\* handler keeps while it calls Default; the second the return of Default,
\* with which the response {connections, default} is written.
listConnections(p) ==
  \/ /\ pc[p] = "listRet"
     /\ RUnlock(p)
     /\ pc' = [pc EXCEPT ![p] = "defRLock"]
     /\ Reset(p)
     /\ run' = [run EXCEPT ![p] = [NoRequest EXCEPT !.op = "listConnections",
                                                    !.pc = "Default",
                                                    !.out.rows = ret[p].items]]
     /\ UNCHANGED <<registry, adapters, stored, recv, pool, tbl, schema, last>>
  \/ /\ pc[p] = "defRet"
     /\ RUnlock(p)
     /\ pc' = [pc EXCEPT ![p] = "idle"]
     /\ Reset(p)
     /\ run' = [run EXCEPT ![p].pc = "done", ![p].data = ret[p].name]
     /\ UNCHANGED <<registry, adapters, stored, recv, pool, tbl, schema, last>>

\* requests that list the connections while others add connections and
\* CloseAll runs
HandlerNext ==
  \E p \in Procs :
    \/ CallAdd(p)
    \/ AddLock(p)
    \/ AddCheck(p)
    \/ AddConnect(p)
    \/ AddStore(p)
    \/ AddSetDefault(p)
    \/ AddRet(p)
    \/ CallList(p)
    \/ ListRLock(p)
    \/ ListBody(p)
    \/ DefaultRLock(p)
    \/ DefaultBody(p)
    \/ listConnections(p)
    \/ CallCloseAll(p)
    \/ CloseAllLock(p)
    \/ CloseAllRange(p)
    \/ CloseAllLoop(p)
    \/ CloseAllReset(p)
    \/ CloseAllResetDefault(p)
    \/ CloseAllRet(p)

HandlerSpec == Init /\ [][HandlerNext]_vars

\* ------------------------------------------------------------------ properties

\* positions at which a goroutine is between Lock and Unlock of m.mu
WriterSection == {"addCheck", "addConnect", "addStore", "addDefault", "addRet",
                  "closeRange", "closeLoop", "closeDefault", "closeRet"}

\* positions at which a goroutine is between RLock and RUnlock of m.mu
ReaderSection == {"getBody", "getRet", "defBody", "defRet", "listBody", "listRet"}

\* Add has computed its return value and still holds the lock
AddReturning(p) == pc[p] = "addRet"

\* the registry is as it was when p acquired the lock
RegistryAsBefore(p) ==
  /\ connections = pre[p].connections
  /\ defaultName = pre[p].defaultName

\* C1: Add with a name that is already registered fails with
\* ConnectionExistsError and leaves the registry exactly as it was: the entry
\* under that name (connection string and adapter handle, still connected),
\* the set of names and the default name are those of the moment Add began.
C1_DuplicateAddRejected ==
  \A p \in Procs :
    (AddReturning(p) /\ arg[p] \in DOMAIN pre[p].connections) =>
      /\ ret[p].err = ErrConnectionExists(arg[p])
      /\ RegistryAsBefore(p)
      /\ adapters[connections[arg[p]].db].db

\* a duplicate Add that carries another connection string than the entry has
C1_Witness ==
  \E p \in Procs :
    /\ AddReturning(p)
    /\ arg[p] \in DOMAIN pre[p].connections
    /\ connections[arg[p]].connString # connString[p]
    /\ defaultName # arg[p]

\* C2: whenever no Add or CloseAll is in the middle of its update (no
\* goroutine is between Lock and Unlock), the default name is empty or names
\* an entry of the registry.
C2_DefaultNamesEntry ==
  (\A p \in Procs : pc[p] \notin WriterSection) =>
    (defaultName = EmptyName \/ defaultName \in DOMAIN connections)

\* a registry with two entries whose default is the later name, no writer active
C2_Witness ==
  /\ \A p \in Procs : pc[p] \notin WriterSection
  /\ defaultName # EmptyName
  /\ Cardinality(DOMAIN connections) = 2
  /\ \E n \in DOMAIN connections : StrLess(n, defaultName)

\* C3: the first successful Add on a registry with no default makes its
\* connection the default, and an Add on a registry that already holds an entry
\* (a later Add, before the next CloseAll) leaves the default name unchanged.
C3_FirstAddFixesDefault ==
  \A p \in Procs :
    AddReturning(p) =>
      /\ (ret[p].err = NoErr /\ pre[p].defaultName = EmptyName) => defaultName = arg[p]
      /\ DOMAIN pre[p].connections # {} => defaultName = pre[p].defaultName

\* C4: when the adapter's Connect fails inside Add, Add returns that error, no
\* entry is stored under the requested name, and the registry (entries and
\* default name) is as it was when Add began.
C4_ConnectFailureNoEntry ==
  \A p \in Procs :
    (AddReturning(p) /\ made[p] # NoAdapter /\ ~made[p].db) =>
      /\ ret[p].err = ConnectErr(db[p])
      /\ arg[p] \notin DOMAIN connections
      /\ RegistryAsBefore(p)
      /\ db[p] \notin DOMAIN adapters

\* a failed Connect on a registry that already has an entry and a default
C4_Witness ==
  \E p \in Procs :
    /\ AddReturning(p)
    /\ made[p] # NoAdapter
    /\ ~made[p].db
    /\ Len(adapters) < MaxAdapters
    /\ DOMAIN connections # {}
    /\ defaultName # EmptyName

\* C5: Get returns the handle Add stored under the name it was asked for, the
\* empty name standing for the current default; it fails with
\* ConnectionMissError exactly when that resolved name has no entry.
C5_GetReturnsStoredHandle ==
  \A p \in Procs :
    pc[p] = "getRet" =>
      LET n == IF arg[p] = EmptyName THEN defaultName ELSE arg[p] IN
      IF n \in DOMAIN connections
        THEN /\ ret[p].err = NoErr
             /\ ret[p].db = connections[n].db
             /\ \E e \in stored[n] : e.db = ret[p].db
        ELSE /\ ret[p].err = ErrConnectionMiss(n)
             /\ ret[p].db = 0

\* Get("") answered with the handle of a default that is not the only entry
C5_Witness ==
  \E p \in Procs :
    /\ pc[p] = "getRet"
    /\ arg[p] = EmptyName
    /\ ret[p].err = NoErr
    /\ defaultName # EmptyName
    /\ Cardinality(DOMAIN connections) = 2


\* s sorts strictly before t, byte by byte
LexBefore(s, t) ==
  \E k \in 1..Len(t) :
    /\ \A i \in 1..(k - 1) : i <= Len(s) /\ s[i] = t[i]
    /\ (k > Len(s) \/ s[k] < t[k])

\* C6: List returns exactly one item per registered connection, carrying the
\* connection string given at Add, in strictly increasing lexicographic order
\* of name, with isDefault set exactly on the item named by the default.
C6_ListSortedAndComplete ==
  \A p \in Procs :
    pc[p] = "listRet" =>
      LET r == ret[p].items IN
      /\ Len(r) = Cardinality(DOMAIN connections)
      /\ {r[i].Name : i \in DOMAIN r} = DOMAIN connections
      /\ \A i \in DOMAIN r :
           /\ stored[r[i].Name] = {[db |-> connections[r[i].Name].db,
                                    connString |-> r[i].ConnString]}
           /\ r[i].Default <=> (r[i].Name = defaultName)
      /\ \A i, j \in DOMAIN r : i < j => LexBefore(r[i].Name, r[j].Name)

\* a listing of several connections whose default is not the first item
C6_Witness ==
  \E p \in Procs :
    /\ pc[p] = "listRet"
    /\ Len(ret[p].items) >= 2
    /\ ~ret[p].items[1].Default
    /\ \E i \in 2..Len(ret[p].items) : ret[p].items[i].Default

\* C7: when CloseAll returns, the registry has no entry and no default name,
\* whether or not an adapter's Close returned an error.
C7_CloseAllEmpties ==
  \A p \in Procs :
    pc[p] = "closeRet" =>
      /\ DOMAIN connections = {}
      /\ defaultName = EmptyName

\* a CloseAll of two connections that returns a close error
C7_Witness ==
  \E p \in Procs :
    /\ pc[p] = "closeRet"
    /\ ret[p].err # NoErr
    /\ Cardinality(DOMAIN pre[p].connections) = 2
    /\ pre[p].defaultName # EmptyName

\* the position of the first failed Close in a log of Close calls, 0 if none
FirstFailure(log) ==
  IF \A i \in DOMAIN log : log[i].err = NoErr THEN 0
  ELSE CHOOSE k \in DOMAIN log :
         /\ log[k].err # NoErr
         /\ \A i \in 1..(k - 1) : log[i].err = NoErr

\* C8: CloseAll calls Close once on every registered adapter, also after an
\* earlier Close failed, and leaves each closed; it returns the first close
\* error it met, wrapped with the entry's name, and nil exactly when every
\* Close succeeded.
C8_CloseAllFirstError ==
  \A p \in Procs :
    pc[p] = "closeRet" =>
      LET log == closeLog[p]
          was == pre[p].connections
          k == FirstFailure(log)
      IN /\ Len(log) = Cardinality(DOMAIN was)
         /\ {log[i].name : i \in DOMAIN log} = DOMAIN was
         /\ \A i \in DOMAIN log : log[i].db = was[log[i].name].db
         /\ \A n \in DOMAIN was : ~adapters[was[n].db].db
         /\ (ret[p].err = NoErr) <=> (k = 0)
         /\ k # 0 => ret[p].err = WrapCloseErr(log[k].name, log[k].err)

\* a CloseAll in which two different Close calls failed
C8_Witness ==
  \E p \in Procs :
    /\ pc[p] = "closeRet"
    /\ \E i, j \in DOMAIN closeLog[p] :
         /\ i < j
         /\ closeLog[p][i].err # NoErr
         /\ closeLog[p][j].err # NoErr

\* C9: the lock gives Add and CloseAll exclusive and Get, Default and List
\* shared access: a goroutine inside Add or CloseAll (Connect included) is the
\* only one inside any registry method body; hence a reader sees the registry
\* unchanged while it holds the lock and never between Add's store of the entry
\* and its update of the default, and no name is ever stored twice by Adds
\* that both succeeded.
C9_LockExcludes ==
  /\ \A p, q \in Procs :
       (p # q /\ pc[p] \in WriterSection) =>
         pc[q] \notin (WriterSection \cup ReaderSection)
  /\ \A p \in Procs :
       pc[p] \in ReaderSection =>
         /\ RegistryAsBefore(p)
         /\ \A q \in Procs : pc[q] \notin {"addDefault", "closeDefault"}
  /\ \A n \in Names : Cardinality(stored[n]) <= 1

\* an Add holds the lock inside Connect while another Add waits in Lock
C9_Witness ==
  \E p, q \in Procs :
    /\ pc[p] = "addConnect"
    /\ muWriter = p
    /\ pc[q] = "addLock"


\* a goroutine that has called a registry method is back from it
Returned(p) == pc[p] = "idle"

\* the steps under the lock that are calls into the adapter, not map work
InAdapterCall(p) ==
  \/ pc[p] = "addConnect"
  \/ pc[p] = "closeLoop" /\ todo[p] # {}

\* every started method eventually returns
EveryCallReturns == \A p \in Procs : (~Returned(p)) ~> Returned(p)

MethodCalled == last.op \notin {"none", "Connect", "Close"}

\* the call left the table and the schema as they were
DatabaseAsBefore ==
  /\ tbl = last.before
  /\ schema = last.schema

\* C11: every adapter method other than Connect and Close, of either adapter,
\* called on a receiver that holds no handle (never connected, Connect failed,
\* or closed) returns ErrNotConnected, hands no statement to the driver and
\* returns no value, whatever its arguments: the check comes before the
\* validation of the arguments.
C11_NotConnectedFirst ==
  (MethodCalled /\ ~last.connected) =>
    /\ last.err = ErrNotConnected
    /\ last.stmts = <<>>
    /\ last.rows = <<>>
    /\ DatabaseAsBefore

\* Update with an empty key and an empty row on an adapter that was closed
\* after rows were inserted through it
C11_Witness ==
  /\ last.op = "Update"
  /\ ~last.connected
  /\ last.key = EmptyRow
  /\ last.data = EmptyRow
  /\ tbl # <<>>
  /\ last.err = ErrNotConnected

\* C12: Close leaves the receiver without handle and the handle it held
\* released; on a receiver that holds no handle (closed before or never
\* connected) it returns nil and changes nothing.
C12_CloseIdempotent ==
  last.op = "Close" =>
    /\ ~recv.db
    /\ pool = 0
    /\ DatabaseAsBefore
    /\ ~last.connected => last.err = NoErr

\* a Close on a receiver that was connected and closed before
C12_Witness ==
  /\ last.op = "Close"
  /\ ~last.connected
  /\ tbl # <<>>
  /\ last.err = NoErr

\* C13: Connect is called only by Add, once per Add and on the adapter Add
\* has just created: a failed Connect ends the Add, no step connects an
\* adapter the registry holds, and the handle registered under a name stays
\* the same as long as the name is registered, so that every Get of the name
\* returns it.
C13_ConnectOnceAtAdd ==
  [][/\ \A p \in Procs :
          made'[p] # made[p] =>
            \/ made'[p] = NoAdapter
            \/ /\ pc[p] = "addConnect"
               /\ made[p] = NoAdapter
               /\ pc'[p] = IF made'[p].db THEN "addStore" ELSE "addRet"
     /\ \A h \in DOMAIN adapters : adapters'[h].db => adapters[h].db
     /\ \A n \in (DOMAIN connections) \cap (DOMAIN connections') :
          connections'[n].db = connections[n].db
     /\ \A p \in Procs :
          (pc'[p] = "getRet" /\ ret'[p].err = NoErr) =>
            ret'[p].db = connections[name'[p]].db]_vars

\* a Get returns the handle of a name while another Add has failed to connect
C13_Witness ==
  \E p, q \in Procs :
    /\ pc[p] = "getRet"
    /\ ret[p].err = NoErr
    /\ adapters[ret[p].db].db
    /\ pc[q] = "addLock"
    /\ Cardinality(DOMAIN connections) = 2

\* the errors a method returns for arguments it does not accept
ValidationErrors ==
  {Errorf("no data to insert"), Errorf("no data to update"),
   Errorf("no primary key provided"), Errorf("where key is empty")}

\* the call was refused for its arguments: a validation error, nothing handed
\* to the driver, the table as before
RefusedAsInvalid ==
  /\ last.err \in ValidationErrors
  /\ last.stmts = <<>>
  /\ tbl = last.before

\* C14: Update and Delete on a connected adapter with an empty key return a
\* validation error, hand no statement to the driver and leave the table as it
\* was; every UPDATE and DELETE statement either method hands to the driver
\* has a WHERE condition with one term per key entry.
C14_EmptyKeyRefused ==
  (last.op \in {"Update", "Delete"} /\ last.connected) =>
    /\ last.key = EmptyRow => RefusedAsInvalid
    /\ \A i \in DOMAIN last.stmts :
         /\ last.stmts[i].stmt.verb = (IF last.op = "Update" THEN "UPDATE" ELSE "DELETE")
         /\ last.stmts[i].stmt.where # <<>>
         /\ Len(last.stmts[i].stmt.where) = Cardinality(DOMAIN last.key)

\* Delete with an empty key on a connected adapter whose table holds rows
C14_Witness ==
  /\ last.op = "Delete"
  /\ last.connected
  /\ last.key = EmptyRow
  /\ Len(tbl) = MaxRows
  /\ last.err = Errorf("no primary key provided")

\* C15: Insert with an empty row and Update with an empty row, on a connected
\* adapter, return a validation error, hand no statement to the driver and
\* leave the table as it was.
C15_EmptyRowRefused ==
  (last.op \in {"Insert", "Update"} /\ last.connected /\ last.data = EmptyRow) =>
    RefusedAsInvalid

\* Update with a key that matches a stored row and an empty row
C15_Witness ==
  /\ last.op = "Update"
  /\ last.connected
  /\ last.data = EmptyRow
  /\ last.key # EmptyRow
  /\ \E i \in DOMAIN tbl : \A c \in DOMAIN last.key : tbl[i][c] = last.key[c]
  /\ last.err = Errorf("no data to update")

\* the rows of t after the first max(offset, 0), at most limit of them when
\* limit is positive
Page(t, limit, offset) ==
  LET from == IF offset > 0 THEN offset ELSE 0
      upto == IF limit > 0 /\ from + limit < Len(t) THEN from + limit ELSE Len(t)
  IN SubSeq(t, from + 1, upto)

\* C16: Rows(table, limit, offset) on a connected adapter, when the driver
\* does not fail, returns the table's rows in storage order without the first
\* max(offset, 0), cut to limit rows when limit > 0 and to the end of the
\* table when limit <= 0, the same for both dialects; the statement carries
\* LIMIT only when limit > 0 and OFFSET only when offset > 0, except that the
\* SQLite statement for offset > 0 and limit <= 0 reads LIMIT -1 OFFSET ?
\* where the PostgreSQL one has the bare OFFSET.
C16_RowsPage ==
  (last.op = "Rows" /\ last.connected) =>
    /\ tbl = last.before
    /\ Len(last.stmts) = 1
    /\ LET q == last.stmts[1].stmt
           args == last.stmts[1].args
       IN /\ q.verb = "SELECT"
          /\ (last.limit > 0) <=> (q.limit.sym \in {"?", "$"})
          /\ (last.offset > 0) <=> (q.offset # Absent)
          /\ (last.limit <= 0 /\ last.offset > 0) =>
               q.limit = (IF recv.kind = "sqlite" THEN MinusOne ELSE Absent)
          /\ (last.limit <= 0 /\ last.offset <= 0) => q.limit = Absent
          /\ args = (IF last.limit > 0 THEN <<last.limit>> ELSE <<>>)
                      \o (IF last.offset > 0 THEN <<last.offset>> ELSE <<>>)
    /\ last.driver => last.err = NoErr
    /\ last.err = NoErr => last.rows = Page(last.before, last.limit, last.offset)

\* Rows(t, 2, 1) of a five-row table returns its second and third row
C16_Witness ==
  /\ last.op = "Rows"
  /\ last.connected
  /\ Len(last.before) = 5
  /\ last.limit = 2
  /\ last.offset = 1
  /\ last.err = NoErr
  /\ last.rows = <<last.before[2], last.before[3]>>

\* the quoted names cols, read back, are the keys of map m in ascending byte order
SortedKeysOf(cols, m) ==
  /\ {Unquote(cols[i]) : i \in DOMAIN cols} = DOMAIN m
  /\ Len(cols) = Cardinality(DOMAIN m)
  /\ \A i, j \in DOMAIN cols : i < j => StrLess(Unquote(cols[i]), Unquote(cols[j]))

\* the placeholders of a statement in the order of its text are all `?`
\* (SQLite) or $1, $2, ... $n (PostgreSQL), n being the number of arguments
PlaceholdersInOrder(stmt, args) ==
  LET phs == Placeholders(stmt)
  IN /\ Len(phs) = Len(args)
     /\ \A k \in DOMAIN phs :
          phs[k] = (IF recv.kind = "sqlite" THEN [sym |-> "?", n |-> 0]
                    ELSE [sym |-> "$", n |-> k])

\* C17: the statement Insert, Update or Delete hands to the driver names the
\* columns of each map in ascending byte order of the keys; its placeholders
\* are all `?` (SQLite) or $1..$n in text order without gap or repeat
\* (PostgreSQL); the argument bound to each placeholder is the map's value for
\* the column written next to it; and the arguments are the row's values
\* followed by the key's values, as are the SET and WHERE terms in the text.
C17_SortedColumnsBoundValues ==
  (last.op \in {"Insert", "Update", "Delete"} /\ last.stmts # <<>>) =>
    /\ Len(last.stmts) = 1
    /\ LET q == last.stmts[1].stmt
           args == last.stmts[1].args
           setCols == [i \in DOMAIN q.set |-> q.set[i].col]
           whereCols == [i \in DOMAIN q.where |-> q.where[i].col]
           n == Len(q.values) + Len(q.set)
       IN /\ PlaceholdersInOrder(q, args)
          /\ SortedKeysOf(IF last.op = "Insert" THEN q.columns ELSE setCols, last.data)
          /\ SortedKeysOf(whereCols, last.key)
          /\ Len(q.values) = Len(q.columns)
          /\ Len(args) = n + Len(q.where)
          /\ \A i \in DOMAIN q.columns :
               /\ ArgAt(q, i, args) = last.data[Unquote(q.columns[i])]
               /\ args[i] = last.data[Unquote(q.columns[i])]
          /\ \A i \in DOMAIN q.set :
               /\ ArgAt(q, i, args) = last.data[Unquote(q.set[i].col)]
               /\ args[i] = last.data[Unquote(q.set[i].col)]
          /\ \A j \in DOMAIN q.where :
               /\ ArgAt(q, n + j, args) = last.key[Unquote(q.where[j].col)]
               /\ args[n + j] = last.key[Unquote(q.where[j].col)]

\* a PostgreSQL Update of two columns by a two-column key, the values of the
\* row differing from each other and from the key's
C17_Witness ==
  /\ last.op = "Update"
  /\ recv.kind = "postgres"
  /\ last.err = NoErr
  /\ DOMAIN last.data = ColNames
  /\ DOMAIN last.key = ColNames
  /\ \E c, d \in ColNames : last.data[c] # last.data[d]
  /\ \E c \in ColNames : last.data[c] # last.key[c]
  /\ Len(last.stmts[1].args) = 4
  /\ tbl # last.before

\* row r holds, in every column key names, the value key gives
RowHasKey(r, key) == \A c \in DOMAIN key : r[c] = key[c]

\* row r with the columns data names set to the values data gives
RowWith(r, data) == [c \in DOMAIN r |-> IF c \in DOMAIN data THEN data[c] ELSE r[c]]

\* C18: after an Update that returned nil the table holds the same rows in the
\* same places, each row that held all values of key now holding the values
\* of row in the columns row names and its former values in the others, and
\* every other row as it was; with no such row the table is as it was.  An
\* Update with a key and a row, on a connected adapter, returns nil whenever
\* the driver carries the statement out, whether a row holds the key or not.
C18_UpdateSetsNamedColumns ==
  last.op = "Update" =>
    /\ last.err = NoErr =>
         /\ last.connected
         /\ Len(tbl) = Len(last.before)
         /\ \A i \in DOMAIN tbl :
              tbl[i] = IF RowHasKey(last.before[i], last.key)
                         THEN RowWith(last.before[i], last.data)
                         ELSE last.before[i]
         /\ (\A i \in DOMAIN last.before : ~RowHasKey(last.before[i], last.key)) =>
              tbl = last.before
    /\ (last.connected /\ last.driver /\ last.key # EmptyRow /\ last.data # EmptyRow) =>
         last.err = NoErr

\* an Update by a one-column key that changed one of two rows and one of its
\* two columns
C18_Witness ==
  /\ last.op = "Update"
  /\ last.err = NoErr
  /\ Len(tbl) = 2
  /\ Cardinality(DOMAIN last.key) = 1
  /\ Cardinality(DOMAIN last.data) = 1
  /\ \E i, j \in DOMAIN tbl :
       /\ tbl[i] # last.before[i]
       /\ tbl[j] = last.before[j]
       /\ ~RowHasKey(last.before[j], last.key)

\* C19: after a Delete that returned nil the table holds, in their order, the
\* rows that did not hold all values of key, unchanged, and none of the rows
\* that did; with no such row the table is as it was and the call returned nil
\* all the same.
C19_DeleteRemovesMatching ==
  last.op = "Delete" =>
    /\ last.err = NoErr =>
         /\ last.connected
         /\ tbl = SelectSeq(last.before, LAMBDA r : ~RowHasKey(r, last.key))
         /\ (\A i \in DOMAIN last.before : ~RowHasKey(last.before[i], last.key)) =>
              tbl = last.before
    /\ (last.connected /\ last.driver /\ last.key # EmptyRow) => last.err = NoErr

\* a PostgreSQL Delete by a two-column key that removed one row and kept a
\* row holding one value of the key but not the other
C19_Witness ==
  /\ last.op = "Delete"
  /\ recv.kind = "postgres"
  /\ last.err = NoErr
  /\ DOMAIN last.key = ColNames
  /\ Len(last.before) = 2
  /\ Len(tbl) = 1
  /\ \E c \in ColNames : tbl[1][c] = last.key[c]

\* C20: after an Insert that returned nil the table holds the rows it held,
\* in their places, and one more row, which holds in every column the row
\* names the value given for that column, whatever the order of the keys;
\* and Rows(table, 0, 0), when it returns nil, returns every row of the
\* table as the table holds it, the one inserted last.
C20_InsertRoundTrip ==
  /\ (last.op = "Insert" /\ last.err = NoErr) =>
       /\ last.connected
       /\ Len(tbl) = Len(last.before) + 1
       /\ SubSeq(tbl, 1, Len(last.before)) = last.before
       /\ \A c \in DOMAIN last.data : tbl[Len(tbl)][c] = last.data[c]
       /\ \A c \in ColNames \ DOMAIN last.data : tbl[Len(tbl)][c] = Null
  /\ (last.op = "Insert" /\ last.connected /\ last.driver /\ last.data # EmptyRow) =>
       last.err = NoErr
  /\ (last.op = "Rows" /\ last.limit = 0 /\ last.offset = 0 /\ last.err = NoErr) =>
       /\ last.rows = tbl
       /\ \A i \in DOMAIN tbl : DOMAIN last.rows[i] = ColNames

\* an Insert of different values into both columns, the keys visited in
\* descending order
C20_Witness ==
  /\ last.op = "Insert"
  /\ last.err = NoErr
  /\ DOMAIN last.data = ColNames
  /\ \E c, d \in ColNames : last.data[c] # last.data[d]
  /\ Len(tbl) = MaxRows

\* the errors the schema methods return for arguments they do not accept
SchemaValidationErrors ==
  {Errorf("table name is required"), Errorf("at least one column is required"),
   Errorf("column name and type are required"), Errorf("table and column are required"),
   Errorf("adding primary key columns via ALTER TABLE is not supported")}

\* the places, in declaration order, of the columns of a list that are marked
\* primary key
PrimaryKeyPlaces(columns) ==
  SelectSeq([i \in DOMAIN columns |-> i], LAMBDA i : columns[i].PrimaryKey)

\* C21: CreateTable on a connected adapter returns a validation error, hands
\* no statement to the driver and leaves the schema as it was when the table
\* name is blank, the column list is empty or a column has a blank name or
\* type; otherwise it hands the driver one CREATE TABLE statement with one
\* definition per column, in which a column carries PRIMARY KEY inline exactly
\* when it is the only primary-key column, and whose trailing PRIMARY KEY
\* clause lists the quoted primary-key columns in declaration order when
\* there are two or more and is absent otherwise.
C21_CreateTableStatement ==
  (last.op = "CreateTable" /\ last.connected) =>
    LET columns == last.data.columns
        pks == PrimaryKeyPlaces(columns)
    IN IF \/ IsBlank(last.data.table)
          \/ columns = <<>>
          \/ \E i \in DOMAIN columns : IsBlank(columns[i].Name) \/ IsBlank(columns[i].Type)
         THEN /\ last.err \in SchemaValidationErrors
              /\ last.stmts = <<>>
              /\ schema = last.schema
         ELSE /\ Len(last.stmts) = 1
              /\ last.err \notin SchemaValidationErrors
              /\ LET stmt == last.stmts[1].stmt
                 IN /\ stmt.verb = "CREATE TABLE"
                    /\ stmt.table = quoteIdent(last.data.table)
                    /\ Len(stmt.defs) = Len(columns)
                    /\ \A i \in DOMAIN columns :
                         /\ stmt.defs[i].name = quoteIdent(columns[i].Name)
                         /\ stmt.defs[i].pk <=> (Len(pks) = 1 /\ columns[i].PrimaryKey)
                    /\ stmt.primaryKey =
                         IF Len(pks) >= 2
                           THEN [k \in DOMAIN pks |-> quoteIdent(columns[pks[k]].Name)]
                         ELSE <<>>

\* CreateTable with two primary-key columns on a connected adapter: the table
\* is created with the trailing clause naming both
C21_Witness ==
  /\ last.op = "CreateTable"
  /\ last.connected
  /\ last.err = NoErr
  /\ Len(PrimaryKeyPlaces(last.data.columns)) = 2
  /\ Len(last.stmts[1].stmt.primaryKey) = 2
  /\ \A i \in DOMAIN last.stmts[1].stmt.defs : ~last.stmts[1].stmt.defs[i].pk
  /\ last.data.table \in DOMAIN schema

\* C22: Columns reports primary-key membership by ordinal.  Of a table
\* whose columns were declared with a primary key of one or more columns, a
\* successful Columns reports each column of the key with PrimaryKey true and
\* PrimaryKeyIndex its 1-based place in the key in declaration order (1 for a
\* single-column key, 1 and 2 for a key [a, b]), and every other column with
\* PrimaryKey false and PrimaryKeyIndex 0.
C22_PrimaryKeyOrdinals ==
  (/\ last.op = "Columns"
   /\ last.connected
   /\ last.err = NoErr
   /\ last.data.table \in DOMAIN last.schema) =>
    LET declared == last.schema[last.data.table]
        key == SelectSeq([i \in DOMAIN declared |-> i], LAMBDA i : declared[i].pk > 0)
    IN /\ Len(last.rows) = Len(declared)
       /\ \A i \in DOMAIN declared :
            /\ last.rows[i].Name = declared[i].name
            /\ last.rows[i].PrimaryKey <=> (\E k \in DOMAIN key : key[k] = i)
            /\ \A k \in DOMAIN key : key[k] = i => last.rows[i].PrimaryKeyIndex = k
            /\ (\A k \in DOMAIN key : key[k] # i) => last.rows[i].PrimaryKeyIndex = 0

\* the number of rows of the table the call changed or removed
RowsAffected ==
  IF Len(tbl) = Len(last.before)
    THEN Cardinality({i \in DOMAIN tbl : tbl[i] # last.before[i]})
  ELSE Len(last.before) - Len(tbl)

\* C23: every Update and Delete that hands a statement to the driver is keyed
\* by exactly the primary-key columns of the table, as the schema declares
\* them, and changes or removes at most one row.
C23_KeyedByCompletePrimaryKey ==
  (/\ last.op \in {"Update", "Delete"}
   /\ last.connected
   /\ last.stmts # <<>>
   /\ last.err = NoErr) =>
    /\ DOMAIN last.key =
         {c.name : c \in {d \in {ColumnsOf(last.schema, TableName)[i] :
                                   i \in DOMAIN ColumnsOf(last.schema, TableName)} :
                            d.pk > 0}}
    /\ RowsAffected <= 1

\* the second half alone: no Update or Delete changes or removes two rows
C23_AtMostOneRow ==
  (last.op \in {"Update", "Delete"} /\ last.err = NoErr) => RowsAffected <= 1

\* C24: the identifier quoteIdent writes into a statement, in either dialect,
\* begins and ends with a double quote, holds between the two no double quote
\* that is not one of a pair, denotes the name it was made from when every
\* pair is read as one double quote, and is the quoted text of no other name.
C24_QuoteIdentRoundTrip ==
  (last.op = "DropTable" /\ last.stmts # <<>>) =>
    LET q == last.stmts[1].stmt.table
        n == last.data.table
    IN /\ Len(q) >= 2
       /\ q[1] = 34
       /\ q[Len(q)] = 34
       /\ Paired(SubSeq(q, 2, Len(q) - 1))
       /\ Unquote(q) = n
       /\ \A m \in Identifiers : quoteIdent(m) = q => m = n

\* DropTable of a name of the greatest length that holds a double quote: the
\* statement went to the driver
C24_Witness ==
  /\ last.op = "DropTable"
  /\ last.stmts # <<>>
  /\ Len(last.data.table) = MaxLen
  /\ \E i \in DOMAIN last.data.table : last.data.table[i] = 34
  /\ recv.kind = "postgres"

\* C26: the registry starts with no entry and no default.  In every step: an
\* Add that returns nil has added the entry of its name to those the registry
\* held when it took the lock and kept every other entry as it was; an Add that
\* returns an error, and every Get, Default and List, return with the entries
\* and the default as they were when they took the lock; only a step of Add or
\* CloseAll changes the entries or the default; and only CloseAll's reset of the
\* map removes an entry or lowers the number of entries.
C26_RegistryStateMachine ==
  /\ connections = EmptyMap /\ defaultName = EmptyName
  /\ [][/\ \A p \in Procs :
             (pc[p] = "addRet" /\ pc'[p] = "idle") =>
               IF ret[p].err = NoErr
                 THEN /\ arg[p] \notin DOMAIN pre[p].connections
                      /\ DOMAIN connections = DOMAIN pre[p].connections \cup {arg[p]}
                      /\ \A n \in DOMAIN pre[p].connections :
                           connections[n] = pre[p].connections[n]
                 ELSE RegistryAsBefore(p)
        /\ \A p \in Procs :
             (pc[p] \in {"getRet", "defRet", "listRet"} /\ pc'[p] = "idle") =>
               RegistryAsBefore(p)
        /\ (connections' # connections \/ defaultName' # defaultName) =>
             \E p \in Procs :
               /\ pc[p] \in {"addStore", "addDefault", "closeLoop", "closeDefault"}
               /\ pc'[p] # pc[p]
        /\ (\/ ~(DOMAIN connections \subseteq DOMAIN connections')
            \/ Cardinality(DOMAIN connections') < Cardinality(DOMAIN connections)) =>
             \E p \in Procs : pc[p] = "closeLoop" /\ pc'[p] = "closeDefault"
       ]_vars

\* an Add returns nil on a registry that held another entry when it began
C26_Witness ==
  \E p \in Procs :
    /\ pc[p] = "addRet"
    /\ ret[p].err = NoErr
    /\ DOMAIN pre[p].connections # {}
    /\ Cardinality(DOMAIN connections) = 2
    /\ defaultName # arg[p]

\* C28: whenever the registry holds an entry, Default returns a name that is
\* not empty and List returns exactly one item flagged as default, whatever
\* names the entries were added under, the empty name included.
C28_OneDefaultAmongEntries ==
  \A p \in Procs :
    /\ (pc[p] = "defRet" /\ DOMAIN connections # {}) => ret[p].name # EmptyName
    /\ (pc[p] = "listRet" /\ DOMAIN connections # {}) =>
         Cardinality({i \in DOMAIN ret[p].items : ret[p].items[i].Default}) = 1

\* the same for registries whose entries all have names that are not empty
C28_OneDefaultAmongNamedEntries ==
  \A p \in Procs :
    EmptyName \notin DOMAIN connections =>
      /\ (pc[p] = "defRet" /\ DOMAIN connections # {}) => ret[p].name # EmptyName
      /\ (pc[p] = "listRet" /\ DOMAIN connections # {}) =>
           Cardinality({i \in DOMAIN ret[p].items : ret[p].items[i].Default}) = 1

\* what Columns returns for a table when every query of it finds the schema s
ColumnsOfSnapshot(table, s) ==
  (IF recv.kind = "sqlite"
     THEN SQLiteColumns(Connect(recv, TRUE), table, <<s, s>>, TRUE)
   ELSE PostgresColumns(Connect(recv, TRUE), table, <<s, s, s>>, TRUE)).rows

\* C25: the columns a successful Columns returns, with their primary-key and
\* foreign-key metadata, are those of the table in one schema: one of the
\* schemas that were in place while the call ran, whatever DDL other requests
\* ran on the table between its queries.
C25_ColumnsOneSnapshot ==
  \A r \in DOMAIN run :
    (run[r].pc = "done" /\ run[r].op = "Columns" /\ run[r].out.err = NoErr) =>
      \E i \in DOMAIN run[r].seen :
        run[r].out.rows = ColumnsOfSnapshot(run[r].data.table, run[r].seen[i])

\* the same for a Columns whose queries all found one schema
C25_ColumnsUndisturbed ==
  \A r \in DOMAIN run :
    (/\ run[r].pc = "done" /\ run[r].op = "Columns" /\ run[r].out.err = NoErr
     /\ \A i \in DOMAIN run[r].seen : run[r].seen[i] = run[r].seen[1]) =>
      run[r].out.rows = ColumnsOfSnapshot(run[r].data.table, run[r].seen[1])

\* C27: a method that runs while another request closes the adapter either
\* completes against the open handle or returns ErrNotConnected: no method
\* that has passed the check of s.db goes on to use a handle that Close has
\* closed or cleared.
C27_NoUseAfterClose ==
  \A r \in DOMAIN run :
    (run[r].pc = "done" /\ run[r].op # "Close") =>
      run[r].out.err \notin UseAfterClose(TRUE)

\* C30: on the SQLite adapter, whose pool has one connection, no request asks
\* for the connection while it holds it (it comes to each statement with its
\* result set closed), at most one request holds the connection, and every
\* method a request has called returns.
C30_SerialisedWithoutDeadlock ==
  /\ [](recv.kind = "sqlite" =>
         \A r \in 1..NumReqs : run[r].pc = "statement" => ~run[r].holds)
  /\ [](recv.kind = "sqlite" =>
         \A r, q \in 1..NumReqs : (run[r].holds /\ run[q].holds) => r = q)
  /\ \A r \in 1..NumReqs :
       (recv.kind = "sqlite" /\ run[r].pc \notin {"idle", "done"}) ~> (run[r].pc = "done")

\* Columns is between its two queries, the connection given back, while every
\* other request waits with a statement for the connection or holds it
C30_Witness ==
  \E r \in 1..NumReqs :
    /\ recv.kind = "sqlite"
    /\ run[r].op = "Columns"
    /\ run[r].pc = "statement"
    /\ Len(run[r].seen) = 1
    /\ \A q \in (1..NumReqs) \ {r} : run[q].pc \in {"statement", "rows"}

\* C29: in every response of the connection listing, the default is empty or
\* is the name of an item of the connections of that response, also when an
\* Add or a CloseAll of another request runs between the handler's List and
\* its Default.
C29_DefaultAmongListed ==
  \A p \in Procs :
    (run[p].op = "listConnections" /\ run[p].pc = "done") =>
      \/ run[p].data = EmptyName
      \/ \E i \in DOMAIN run[p].out.rows : run[p].out.rows[i].Name = run[p].data

====
